---------------------------- MODULE Spec2Model ----------------------------
(***************************************************************************)
(* Model of the PDF-Web-Assistant: the relevance-gated retriever           *)
(* (pdf_retrieval.py), the web fallback searcher (tavily_tool.py), the     *)
(* query orchestrator (agent.py), the ingestion pipeline                   *)
(* (document_storage.py), the persistent store adapter (history.py) and    *)
(* the session handlers of the interface (app.py).                         *)
(*                                                                         *)
(* Text is a sequence of symbols.  A symbol is one character, or one of    *)
(* the literal pieces the code writes ("Error:", "PDF Content: ", ...).    *)
(***************************************************************************)
EXTENDS Integers, Sequences, FiniteSets, TLC

VARIABLES
    pdf_tool,   \* one call of pdf_retrieval_tool: its input, locals and result
    web_tool,   \* one call of tavily_search_tool: its input, locals and result
    faiss,      \* the FAISS objects built so far, each the list of its chunks
    vector_store,       \* DocumentProcessor.vector_store: 0 (None) or a FAISS object
    graph,              \* RAGPipeline.graph: 0 (None) or the FAISS object its
                        \* pdf_search node closes over
    chat_history,       \* the chat_history collection, in insertion order
    sessions,           \* the sessions collection, in insertion order
    documents,          \* the documents collection, in insertion order
    timestamps,         \* the timestamp field of each turn of chat_history
    current_session_id, \* NetSolChatInterface.current_session_id
    uuids,              \* how many session ids uuid4 has produced
    requests,           \* how many requests the interface has sent
    faults,             \* how many more calls of external capabilities may fail
    qp,         \* the calls of chat_response / RAGPipeline.query, one per request
    up,         \* the calls of upload_pdf, one per request
    client,     \* DatabaseManager._client: 0 (None) or the MongoClient
    main,       \* main(): where it is, whether chat_interface is bound, and
                \* the exception that is propagating
    store_call  \* the last call made on the store adapter by itself

tools == <<pdf_tool, web_tool>>
store == <<chat_history, sessions, documents, timestamps>>
index == <<faiss, vector_store, graph>>
env == <<requests, faults>>
process == <<client, main, store_call>>
vars == <<pdf_tool, web_tool, faiss, vector_store, graph, chat_history, sessions,
          documents, timestamps, current_session_id, uuids, requests, faults,
          qp, up, client, main, store_call>>

---------------------------------------------------------------------------
(* Bounds of the model *)

\* distances are the rationals score / ScoreDen
ScoreDen == 2
\* the largest score the index returns: d ranges over 0 .. MaxScore / ScoreDen
MaxScore == 4
\* raw web results per search in the searcher's own specification
MaxRaw == 4
\* requests (messages, uploads, session changes) the interface sends over
\* the life of the process
MaxRequests == 2
\* calls of external capabilities (store, index, generation, web search,
\* graph runtime) that fail over the life of the process
MaxFaults == 1

\* how many queries a session has answered before, at most
MaxEarlierQueries == 6

\* the turns written to the store adapter on its own
MaxTurns == 2

(* Program constants *)

\* similarity_search_with_score(query, k=3)
TopK == 3
\* relevant_content[:2]
MaxChunksUsed == 2
\* the threshold 0.4 = ThresholdNum / ThresholdDen
ThresholdNum == 2
ThresholdDen == 5
\* results[:3]
MaxSnippets == 3
\* result.get('content', 'No content')[:400]
SnippetChars == 400
\* TavilySearch(max_results=5)
MaxResults == 5
\* load_history(thread_id, limit=10)
HistoryLimit == 10
\* load_history(session_id) in load_session: limit = 50
DefaultLimit == 50

---------------------------------------------------------------------------
(* Python's str and list operations, as the code uses them *)

Min(a, b) == IF a <= b THEN a ELSE b

IsSpace(c) == c \in {" ", "\n"}

RECURSIVE LStrip(_)
LStrip(s) ==
    IF s = <<>> \/ ~IsSpace(Head(s)) THEN s ELSE LStrip(Tail(s))

RECURSIVE RStrip(_)
RStrip(s) ==
    IF s = <<>> \/ ~IsSpace(s[Len(s)]) THEN s
    ELSE RStrip(SubSeq(s, 1, Len(s) - 1))

\* str.strip()
Strip(s) == RStrip(LStrip(s))

\* s[:n]
Slice(s, n) == SubSeq(s, 1, Min(n, Len(s)))

\* s.startswith(p)
StartsWith(s, p) == Len(s) >= Len(p) /\ SubSeq(s, 1, Len(p)) = p

\* sep.join(parts)
RECURSIVE Join(_, _)
Join(parts, sep) ==
    IF parts = <<>> THEN <<>>
    ELSE IF Len(parts) = 1 THEN parts[1]
    ELSE parts[1] \o sep \o Join(Tail(parts), sep)

\* n copies of the symbol c
Rep(c, n) == [i \in 1..n |-> c]

BlankLine == <<"\n\n">>

---------------------------------------------------------------------------
(* pdf_retrieval.py *)

NO_RELEVANT_CONTENT == <<"NO_RELEVANT_CONTENT">>
PdfContentPrefix == <<"PDF Content: ">>
ErrorPrefix == <<"Error:">>
ErrNoVectorStore == ErrorPrefix \o <<" No PDF documents uploaded yet.">>
ErrRetrievalFailed(e) == ErrorPrefix \o <<" Failed to process PDF retrieval - ">> \o e

\* 1 / (1 + score), an exact rational; score is the distance d * ScoreDen
Similarity(score) == [num |-> ScoreDen, den |-> ScoreDen + score]

Threshold == [num |-> ThresholdNum, den |-> ThresholdDen]

\* a > b on rationals with positive denominators
RatGT(a, b) == a.num * b.den > b.num * a.den

\* the filter of the list comprehension at line 30
IsRelevantMut(r) ==
    /\ ~RatGT(Threshold, Similarity(r.score))
    /\ Strip(r.page_content) # <<>>

IsRelevant(r) ==
    /\ RatGT(Similarity(r.score), Threshold)
    /\ Strip(r.page_content) # <<>>

\* relevant_content: the stripped text of the results that pass the filter
relevant_content(results) ==
    LET kept == SelectSeq(results, IsRelevant)
    IN  [i \in 1..Len(kept) |-> Strip(kept[i].page_content)]

GroundedTextNoPrefix(rc) == Join(Slice(rc, MaxChunksUsed), BlankLine)

GroundedTextMut(rc) ==
    PdfContentPrefix \o Join(SubSeq(rc, Len(rc) - Min(MaxChunksUsed, Len(rc)) + 1, Len(rc)),
                             BlankLine)

\* f"PDF Content: {'\n\n'.join(relevant_content[:2])}"
GroundedText(rc) ==
    PdfContentPrefix \o Join(Slice(rc, MaxChunksUsed), BlankLine)

\* search is what similarity_search_with_score did: raised with text exc,
\* or returned the list results of (page_content, score)
pdf_retrieval_tool(vector_store_is_none, search) ==
    IF vector_store_is_none THEN ErrNoVectorStore
    ELSE IF search.raised THEN ErrRetrievalFailed(search.exc)
    ELSE IF search.results = <<>> THEN NO_RELEVANT_CONTENT
    ELSE LET rc == relevant_content(search.results)
         IN  IF rc # <<>> THEN GroundedText(rc) ELSE NO_RELEVANT_CONTENT

\* the three outcomes of the retriever, read off the returned text as
\* pdf_search_node reads it (agent.py line 65)
IsGrounded(pdf_result) ==
    pdf_result # NO_RELEVANT_CONTENT /\ ~StartsWith(pdf_result, ErrorPrefix)

---------------------------------------------------------------------------
(* tavily_tool.py *)

NoWebResults == <<"No web results found">>
NoRelevantWeb == <<"No relevant web content found">>
WebResultsPrefix == <<"Web Search Results: ">>
NoURL == <<"No URL">>
Ellipsis == <<"...">>
ErrWebFailed(e) == ErrorPrefix \o <<" Unable to fetch web results - ">> \o e

\* result.get('url', 'No URL'): a result without the key has url = <<>>
GetUrl(result) == IF result.url = <<>> THEN NoURL ELSE result.url

\* results[:3]
WebHead(results) == Slice(results, MaxSnippets)

SnippetBodyMut(result) == Slice(result.content, SnippetChars + 1)

\* result.get('content', 'No content')[:400]
SnippetBody(result) == Slice(result.content, SnippetChars)

\* the (i, result) pairs of enumerate(results[:3], 1) that pass the filter
\* result.get('content', '').strip(), each as the pieces of its f-string
content_parts(results) ==
    LET head == WebHead(results)
        idx  == SelectSeq([i \in 1..Len(head) |-> i],
                          LAMBDA i : Strip(head[i].content) # <<>>)
    IN  [j \in 1..Len(idx) |->
            [source |-> idx[j],
             url    |-> GetUrl(head[idx[j]]),
             body   |-> SnippetBody(head[idx[j]])]]

\* f"Source {i} ({url}): {content[:400]}..."
RenderPart(p) ==
    <<"Source ", ToString(p.source), " (">> \o p.url \o <<"): ">> \o p.body \o Ellipsis

RenderParts(parts) == [j \in 1..Len(parts) |-> RenderPart(parts[j])]

\* search is what tavily_tool.invoke did: raised, returned something that
\* is no list (is_list = FALSE), or returned the list results
tavily_search_tool(search) ==
    IF search.raised THEN ErrWebFailed(search.exc)
    ELSE IF ~search.is_list \/ search.results = <<>> THEN NoWebResults
    ELSE LET parts == content_parts(search.results)
         IN  IF parts # <<>>
             THEN WebResultsPrefix \o Join(RenderParts(parts), BlankLine)
             ELSE NoRelevantWeb

---------------------------------------------------------------------------
(* The inputs of the two tools *)

Exc == <<"exc">>

ChunkTexts == { <<>>, <<" ">>, <<"a">>, <<" ", "b", "\n">>, <<"Error:", "c">> }

Scores == 0..MaxScore

RetrievedChunks == [page_content : ChunkTexts, score : Scores]

\* FAISS returns the neighbours nearest first
IsNearestFirst(rs) == \A i \in 1..(Len(rs) - 1) : rs[i].score <= rs[i + 1].score

ResultLists ==
    UNION { { rs \in [1..n -> RetrievedChunks] : IsNearestFirst(rs) } : n \in 0..TopK }

PdfSearches ==
    { [raised |-> TRUE, exc |-> Exc, results |-> <<>>] }
    \cup { [raised |-> FALSE, exc |-> <<>>, results |-> rs] : rs \in ResultLists }

WebContents ==
    { <<>>, <<" ">>, <<"w">>, Rep("x", SnippetChars), Rep("y", SnippetChars + 1) }

WebUrls == { <<>>, <<"u">> }

RawResults == [url : WebUrls, content : WebContents]

RawLists == UNION { [1..n -> RawResults] : n \in 0..Min(MaxRaw, MaxResults) }

WebSearches ==
    { [raised |-> TRUE, exc |-> Exc, is_list |-> FALSE, results |-> <<>>],
      [raised |-> FALSE, exc |-> <<>>, is_list |-> FALSE, results |-> <<>>] }
    \cup { [raised |-> FALSE, exc |-> <<>>, is_list |-> TRUE, results |-> rs] :
             rs \in RawLists }

---------------------------------------------------------------------------
(* One call of pdf_retrieval_tool on an existing index *)

PdfToolIdle == [pc |-> "idle", search |-> [raised |-> FALSE, exc |-> <<>>, results |-> <<>>],
                relevant_content |-> <<>>, ret |-> <<>>]

WebToolIdle == [pc |-> "idle",
                search |-> [raised |-> FALSE, exc |-> <<>>, is_list |-> FALSE, results |-> <<>>],
                content_parts |-> <<>>, ret |-> <<>>]

(* history.py: the persistent store adapter *)

\* None, as the value of vector_store and graph
None == 0

\* DatabaseManager._client once _initialize_connection has assigned it
MongoClient == 1

\* close_connection: the client is closed and the attribute reset
close_connection(c) == None

NoException == "none"

\* no call has been made on the adapter by itself
NoCall == [op |-> "none"]


RolesMut == {"user", "assistant", "system", "moderator"}

\* the roles save_message accepts
Roles == {"user", "assistant", "system"}

\* str(uuid.uuid4()): the n-th identifier produced
Uuid(n) == <<"uuid-", ToString(n)>>

\* get_session: the record, or None when there is none or the store call fails
get_session(ss, session_id, ok) ==
    ok /\ \E i \in 1..Len(ss) : ss[i].session_id = session_id

\* save_session: insert_one, refused by the unique index on session_id when
\* the identifier already has a record; a failure is caught and logged
save_session(ss, session_id, ok) ==
    IF session_id # <<>> /\ ok /\ \A i \in 1..Len(ss) : ss[i].session_id # session_id
    THEN Append(ss, [session_id |-> session_id])
    ELSE ss

SaveMessageInsertMut(ch, turn, ok) == IF ok THEN <<turn>> \o ch ELSE ch

\* collection.insert_one(document) on chat_history
SaveMessageInsert(ch, turn, ok) == IF ok THEN Append(ch, turn) ELSE ch

\* datetime.utcnow() of a caller that writes after every earlier insert
\* has returned and the clock has advanced
UtcNow(ts) == IF ts = <<>> THEN 1 ELSE ts[Len(ts)] + 1

\* save_message; call is the request that writes and now its reading of
\* datetime.utcnow().  get_ok, sess_ok and msg_ok say which of its three
\* store calls succeed
save_message(ss, ch, ts, session_id, message, role, call, now, get_ok, sess_ok, msg_ok) ==
    IF session_id = <<>> \/ message = <<>> \/ role = "" \/ role \notin Roles
    THEN [sessions |-> ss, chat_history |-> ch, timestamps |-> ts, ret |-> FALSE]
    ELSE [sessions |->
              IF get_session(ss, session_id, get_ok) THEN ss
              ELSE save_session(ss, session_id, sess_ok),
          chat_history |->
              SaveMessageInsert(ch, [session_id |-> session_id, content |-> message,
                                     role |-> role, call |-> call], msg_ok),
          timestamps |-> IF msg_ok THEN Append(ts, now) ELSE ts,
          ret |-> msg_ok]

\* sort("timestamp", 1) over the turns idx of ch: every order in which the
\* timestamps do not decrease; the order of turns with equal timestamps is
\* the store's choice
RECURSIVE TimestampOrders(_, _)
TimestampOrders(ts, idx) ==
    IF idx = {} THEN {<<>>}
    ELSE LET first == { i \in idx : \A k \in idx : ts[i] <= ts[k] }
         IN  UNION { { <<i>> \o rest : rest \in TimestampOrders(ts, idx \ {i}) } :
                     i \in first }

\* find({"session_id": session_id}).sort("timestamp", 1)
SessionOrders(ch, ts, session_id) ==
    TimestampOrders(ts, { i \in 1..Len(ch) : ch[i].session_id = session_id })

LoadHistoryMut(ch, ts, session_id, limit, ok, order) ==
    IF ~ok THEN <<>>
    ELSE [i \in 1..Len(order) |-> <<ch[order[i]].role, ch[order[i]].content, ts[order[i]]>>]

\* load_history: the session's turns by ascending timestamp, the first limit
\* of them, as (role, content, timestamp); [] when the store call fails.
\* order is the order the sort has put the session's turns in
load_history(ch, ts, session_id, limit, ok, order) ==
    IF ~ok THEN <<>>
    ELSE [i \in 1..Min(limit, Len(order)) |->
              <<ch[order[i]].role, ch[order[i]].content, ts[order[i]]>>]

---------------------------------------------------------------------------
(* The index: FAISS over the embeddings of the chunks *)

PlainQuery == <<"How much did revenue grow?">>
CueQuery == <<"What did you say ", "Earlier", "?">>

\* the embedding capability, a black box: texts as points of a line
Embed(text) ==
    CASE text = PlainQuery          -> 0
      [] text = CueQuery            -> 1
      [] text = <<"a">>             -> 0
      [] text = <<" ", "b", "\n">>  -> 1
      [] text = <<"z">>             -> 4
      [] OTHER                      -> 2

\* the L2 distance FAISS reports, in units of 1 / ScoreDen
Distance(query, chunk) ==
    (Embed(query) - Embed(chunk.page_content)) * (Embed(query) - Embed(chunk.page_content))

RECURSIVE NearestFirst(_, _)
NearestFirst(scored, k) ==
    IF k = 0 \/ scored = <<>> THEN <<>>
    ELSE LET i == CHOOSE i \in 1..Len(scored) :
                     /\ \A j \in 1..Len(scored) : scored[i].score <= scored[j].score
                     /\ \A j \in 1..(i - 1) : scored[j].score > scored[i].score
         IN  <<scored[i]>>
               \o NearestFirst(SubSeq(scored, 1, i - 1) \o SubSeq(scored, i + 1, Len(scored)),
                               k - 1)

\* vector_store.similarity_search_with_score(query, k)
similarity_search_with_score(chunks, query, k) ==
    NearestFirst([i \in 1..Len(chunks) |->
                     [page_content |-> chunks[i].page_content,
                      score |-> Distance(query, chunks[i])]], k)

---------------------------------------------------------------------------
(* agent.py: the orchestrator *)

ErrNoPdfNode == ErrorPrefix \o <<" No PDF documents uploaded yet.">>
ErrNoPdfQuery ==
    ErrorPrefix \o <<" No PDF documents uploaded yet. Please upload a PDF first.">>
ErrWorkflow ==
    ErrorPrefix \o <<" Failed to initialize workflow due to missing vector store.">>
Apology ==
    <<"I apologize, but I couldn't find relevant information to answer your question.">>
SorryMut(e) == <<>>

\* line 237: the message of the except branch of query
Sorry(e) == <<"Sorry, I encountered an error while processing your query: ">> \o e

BasedOnPdf == <<"Based on the PDF: ">>
BasedOnWeb == <<"Based on web search: ">>

\* str.capitalize() on the role
Capitalize(role) ==
    CASE role = "user" -> "User"
      [] role = "assistant" -> "Assistant"
      [] role = "system" -> "System"
      [] OTHER -> role

\* str.lower(), symbol by symbol
Lower(sym) ==
    CASE sym = "Earlier" -> "earlier"
      [] sym = "What did you say " -> "what did you say "
      [] OTHER -> sym

Keywords == {"earlier", "previous", "before", "last", "what did you say"}

\* keyword in user_query.lower(): "what did you say" occurs in the symbol
\* "what did you say "
Contains(text, keyword) ==
    \E i \in 1..Len(text) :
        \/ Lower(text[i]) = keyword
        \/ keyword = "what did you say" /\ Lower(text[i]) = "what did you say "

history_relevant(user_query) == \E k \in Keywords : Contains(user_query, k)

\* "\n".join(f"{msg[0].capitalize()}: {msg[1]}" for msg in history if ...)
history_context(history) ==
    LET kept == SelectSeq(history,
                    LAMBDA m : m[1] \in {"user", "assistant"} /\ Strip(m[2]) # <<>>)
    IN  Join([i \in 1..Len(kept) |-> <<Capitalize(kept[i][1]), ": ">> \o kept[i][2]],
             <<"\n">>)

\* prompt_prefix, the content of the HumanMessage of initial_state["messages"]
prompt_prefix(user_query, context) ==
    IF history_relevant(user_query) /\ context # <<>>
    THEN <<"\nConversation History:\n">> \o context
           \o <<"\n\nCurrent Query: ">> \o user_query
           \o <<"\n\nPlease answer the query, taking into account the conversation history ...\n">>
    ELSE <<"Current Query: ">> \o user_query

\* the prompt pdf_search_node builds for the generation capability
PdfPrompt(query, pdf_result) ==
    <<"\nBased on the following information from the PDF document, ... query: \"">>
      \o query \o <<"\"\n\nPDF Information:\n">> \o pdf_result
      \o <<"\n\nPlease provide a well-structured response based on the PDF content. ...\n">>

\* the prompt web_search_node builds for the generation capability
WebPrompt(query, web_result) ==
    <<"\nThe user asked: \"">> \o query
      \o <<"\"\n\nThe information was not found in the PDF document, so I searched the web and found the following:\n\n">>
      \o web_result
      \o <<"\n\nProvide a clear and comprehensive answer based solely on these web search results. ...">>

\* llm.invoke: it raises, or returns a response with this content
Generations ==
    { [raised |-> TRUE, content |-> <<>>],
      [raised |-> FALSE, content |-> <<"G">>],
      [raised |-> FALSE, content |-> <<" ">>] }

\* tavily_tool.invoke inside a query
WebSearchesInQuery ==
    { [raised |-> TRUE, exc |-> Exc, is_list |-> FALSE, results |-> <<>>],
      [raised |-> FALSE, exc |-> <<>>, is_list |-> FALSE, results |-> <<>>],
      [raised |-> FALSE, exc |-> <<>>, is_list |-> TRUE, results |-> <<>>],
      [raised |-> FALSE, exc |-> <<>>, is_list |-> TRUE,
       results |-> <<[url |-> <<"u">>, content |-> <<" ">>]>>],
      [raised |-> FALSE, exc |-> <<>>, is_list |-> TRUE,
       results |-> <<[url |-> <<"u">>, content |-> <<"w">>]>>] }

FallbackMut(label, raw) == raw

\* lines 80 and 119: the except branch of llm.invoke labels the raw text
Fallback(label, raw) == label \o raw

FinalizeMut(final_answer) == final_answer

\* lines 228-229: an empty or blank final_answer becomes the apology
Finalize(final_answer) ==
    IF final_answer = <<>> \/ Strip(final_answer) = <<>> THEN Apology ELSE final_answer

RouteAlwaysWeb(pdf_found_content) == "web_search"

RouteAlwaysEnd(pdf_found_content) == "END"

\* route_after_pdf
route_after_pdf(pdf_found_content) == IF pdf_found_content THEN "END" ELSE "web_search"

NoVectorStoreMut(vs) == FALSE

NoVectorStoreForSession(vs) == TRUE

\* query, line 182: if not self.document_processor.vector_store
no_vector_store(vs) == vs = None

\* the messages the interface sends: a blank one is dropped by chat_response
Messages == { PlainQuery, CueQuery, <<" ">> }

\* the listeners bound to chat_response (app.py lines 216 and 218): each runs
\* one call at a time
QProcs == {"submit", "click"}

\* the failures among the calls whose outcomes are oks, against the budget
Failed(oks) == Cardinality({ i \in DOMAIN oks : ~oks[i] })
MayFail(oks) == Failed(oks) <= faults

QIdle ==
    [pc |-> "idle", call |-> 0, user_query |-> <<>>, thread_id |-> <<>>,
     history |-> <<>>, prompt_prefix |-> <<>>, g |-> None,
     pdf_result |-> <<>>, web_result |-> <<>>, llm_prompt |-> <<>>,
     final_answer |-> <<>>, pdf_found_content |-> FALSE, gen_raised |-> FALSE,
     answer |-> <<>>, ret |-> <<>>,
     path |-> <<>>, calls |-> <<>>, saved |-> <<>>]

UpdateWorkflowMut(vs, g) == IF vs # None THEN vs + 1 ELSE g

\* update_workflow: the graph is rebuilt over the vector store there is
update_workflow(vs, g) == IF vs # None THEN vs ELSE g

\* chat_response up to line 173 of query: the blank message returns at once;
\* otherwise query is entered with the current session and loads the history
ChatResponse(p) ==
    /\ qp[p].pc \in {"idle", "done", "dropped"}
    /\ UNCHANGED process
    /\ requests < MaxRequests
    /\ requests' = requests + 1
    /\ \E message \in Messages, hist_ok \in BOOLEAN,
          order \in SessionOrders(chat_history, timestamps, current_session_id) :
          /\ MayFail(<<hist_ok>>)
          /\ Strip(message) = <<>> => hist_ok
          /\ faults' = faults - Failed(<<hist_ok>>)
          /\ qp' = [qp EXCEPT ![p] =
                    IF Strip(message) = <<>>
                    THEN [QIdle EXCEPT !.pc = "dropped", !.call = qp[p].call]
                    ELSE [QIdle EXCEPT
                            !.pc = "route",
                            !.call = qp[p].call + 1,
                            !.user_query = message,
                            !.thread_id = current_session_id,
                            !.history = load_history(chat_history, timestamps,
                                                     current_session_id,
                                                     HistoryLimit, hist_ok, order)]]
    /\ UNCHANGED <<tools, index, store, current_session_id, uuids, up>>

\* query, lines 182-225: the no-index return, update_workflow when there is
\* no graph, the prompt prefix, and the entry of graph.invoke, which may raise
QueryRoute(p) ==
    /\ qp[p].pc = "route"
    /\ UNCHANGED process
    /\ \E invoke_ok \in BOOLEAN :
          /\ MayFail(<<invoke_ok>>)
          /\ no_vector_store(vector_store) => invoke_ok
          /\ faults' = faults - Failed(<<invoke_ok>>)
          /\ LET q  == qp[p]
                 g2 == IF graph = None THEN update_workflow(vector_store, graph) ELSE graph
             IN  IF no_vector_store(vector_store)
                 THEN /\ qp' = [qp EXCEPT ![p] = [q EXCEPT !.answer = ErrNoPdfQuery,
                                                            !.pc = "save_user"]]
                      /\ graph' = graph
                 ELSE /\ graph' = g2
                      /\ qp' = [qp EXCEPT ![p] =
                            IF g2 = None
                            THEN [q EXCEPT !.answer = ErrWorkflow, !.pc = "save_user"]
                            ELSE IF ~invoke_ok
                            THEN [q EXCEPT
                                    !.prompt_prefix =
                                        prompt_prefix(q.user_query, history_context(q.history)),
                                    !.answer = Sorry(Exc), !.pc = "save_user"]
                            ELSE [q EXCEPT
                                    !.prompt_prefix =
                                        prompt_prefix(q.user_query, history_context(q.history)),
                                    !.g = g2, !.path = <<"START">>, !.pc = "pdf_search"]]
    /\ UNCHANGED <<tools, faiss, vector_store, store, current_session_id, uuids,
                   requests, up>>

\* pdf_search_node followed by route_after_pdf; reaching END, query computes
\* the answer (lines 226-229).  The generation capability is called, and can
\* fail, only after a grounded result
PdfSearchNode(p) ==
    /\ qp[p].pc = "pdf_search"
    /\ UNCHANGED process
    /\ \E search_ok \in BOOLEAN, gen \in Generations :
          /\ MayFail(<<search_ok, ~gen.raised>>)
          /\ LET q      == qp[p]
                 search == IF search_ok
                           THEN [raised |-> FALSE, exc |-> <<>>,
                                 results |-> similarity_search_with_score(
                                                 faiss[q.g], q.user_query, TopK)]
                           ELSE [raised |-> TRUE, exc |-> Exc, results |-> <<>>]
                 res    == pdf_retrieval_tool(FALSE, search)
                 prompt == PdfPrompt(q.user_query, res)
                 final  == IF gen.raised THEN Fallback(BasedOnPdf, res) ELSE gen.content
             IN  /\ faults' = faults - Failed(<<search_ok, IsGrounded(res) => ~gen.raised>>)
                 /\ qp' = [qp EXCEPT ![p] =
                     IF q.g = None
                     THEN [q EXCEPT !.final_answer = ErrNoPdfNode,
                                    !.pdf_found_content = FALSE,
                                    !.path = @ \o <<"DOCUMENT_SEARCH">>,
                                    !.pc = "web_search"]
                     ELSE IF IsGrounded(res)
                     THEN [q EXCEPT !.pdf_result = res,
                                    !.llm_prompt = prompt,
                                    !.final_answer = final,
                                    !.gen_raised = gen.raised,
                                    !.pdf_found_content = TRUE,
                                    !.calls = @ \o <<"retrieve", "generate_document">>,
                                    !.path = @ \o <<"DOCUMENT_SEARCH",
                                                    route_after_pdf(TRUE)>>,
                                    !.answer = Finalize(final),
                                    !.pc = IF route_after_pdf(TRUE) = "END"
                                           THEN "save_user" ELSE "web_search"]
                     ELSE [q EXCEPT !.pdf_result = res,
                                    !.final_answer = <<>>,
                                    !.pdf_found_content = FALSE,
                                    !.calls = @ \o <<"retrieve">>,
                                    !.path = @ \o <<"DOCUMENT_SEARCH">>
                                               \o (IF route_after_pdf(FALSE) = "END"
                                                   THEN <<"END">> ELSE <<>>),
                                    !.answer = IF route_after_pdf(FALSE) = "END"
                                               THEN Finalize(<<>>) ELSE <<>>,
                                    !.pc = IF route_after_pdf(FALSE) = "END"
                                           THEN "save_user" ELSE "web_search"]]
    /\ UNCHANGED <<tools, index, store, current_session_id, uuids, requests, up>>

\* web_search_node, then END and the answer (lines 226-229)
WebSearchNode(p) ==
    /\ qp[p].pc = "web_search"
    /\ UNCHANGED process
    /\ \E ws \in WebSearchesInQuery, gen \in Generations :
          /\ MayFail(<<~ws.raised, ~gen.raised>>)
          /\ faults' = faults - Failed(<<~ws.raised, ~gen.raised>>)
          /\ LET q     == qp[p]
                 res   == tavily_search_tool(ws)
                 final == IF gen.raised THEN Fallback(BasedOnWeb, res) ELSE gen.content
             IN  qp' = [qp EXCEPT ![p] =
                     [q EXCEPT !.web_result = res,
                               !.llm_prompt = WebPrompt(q.user_query, res),
                               !.final_answer = final,
                               !.gen_raised = gen.raised,
                               !.calls = @ \o <<"web_search", "generate_web">>,
                               !.path = @ \o <<"WEB_SEARCH", "END">>,
                               !.answer = Finalize(final),
                               !.pc = "save_user"]]
    /\ UNCHANGED <<tools, index, store, current_session_id, uuids, requests, up>>

\* save_message(thread_id, user_query, "user"), on every path of query
SaveUser(p) ==
    /\ qp[p].pc = "save_user"
    /\ UNCHANGED process
    /\ \E get_ok, sess_ok, msg_ok \in BOOLEAN :
          /\ MayFail(<<get_ok, sess_ok, msg_ok>>)
          /\ faults' = faults - Failed(<<get_ok, sess_ok, msg_ok>>)
          /\ LET q == qp[p]
                 r == save_message(sessions, chat_history, timestamps, q.thread_id,
                                   q.user_query, "user", <<p, q.call>>,
                                   UtcNow(timestamps), get_ok, sess_ok, msg_ok)
             IN  /\ sessions' = r.sessions
                 /\ chat_history' = r.chat_history
                 /\ timestamps' = r.timestamps
                 /\ qp' = [qp EXCEPT ![p] = [q EXCEPT !.saved = @ \o <<r.ret>>,
                                                      !.pc = "save_assistant"]]
    /\ UNCHANGED <<tools, index, documents, current_session_id, uuids, requests, up>>

\* save_message(thread_id, answer, "assistant") and the return of the answer
SaveAssistant(p) ==
    /\ qp[p].pc = "save_assistant"
    /\ UNCHANGED process
    /\ \E get_ok, sess_ok, msg_ok \in BOOLEAN :
          /\ MayFail(<<get_ok, sess_ok, msg_ok>>)
          /\ faults' = faults - Failed(<<get_ok, sess_ok, msg_ok>>)
          /\ LET q == qp[p]
                 r == save_message(sessions, chat_history, timestamps, q.thread_id,
                                   q.answer, "assistant", <<p, q.call>>,
                                   UtcNow(timestamps), get_ok, sess_ok, msg_ok)
             IN  /\ sessions' = r.sessions
                 /\ chat_history' = r.chat_history
                 /\ timestamps' = r.timestamps
                 /\ qp' = [qp EXCEPT ![p] = [q EXCEPT !.saved = @ \o <<r.ret>>,
                                                      !.ret = q.answer,
                                                      !.pc = "done"]]
    /\ UNCHANGED <<tools, index, documents, current_session_id, uuids, requests, up>>

---------------------------------------------------------------------------
(* document_storage.py and upload_pdf of app.py: ingestion *)

NearChunks == << <<"a">>, <<" ", "b", "\n">> >>
FarChunks == << <<"z">> >>

\* the files a user uploads: is_pdf is the test on the path, loads whether
\* PyPDFLoader yields documents, texts what the splitter yields
Files ==
    { [filename |-> "notes.txt", is_pdf |-> FALSE, loads |-> TRUE, texts |-> NearChunks],
      [filename |-> "empty.pdf", is_pdf |-> TRUE, loads |-> FALSE, texts |-> <<>>],
      [filename |-> "blank.pdf", is_pdf |-> TRUE, loads |-> TRUE, texts |-> <<>>],
      [filename |-> "near.pdf", is_pdf |-> TRUE, loads |-> TRUE, texts |-> NearChunks],
      [filename |-> "far.pdf", is_pdf |-> TRUE, loads |-> TRUE, texts |-> FarChunks] }

\* the chunks of a file as the index holds them
ChunksOf(file) ==
    [i \in 1..Len(file.texts) |-> [page_content |-> file.texts[i], source |-> file.filename]]

\* the listener bound to upload_pdf (app.py line 220)
UProcs == {"upload"}

UIdle ==
    [pc |-> "idle", file |-> [filename |-> "", is_pdf |-> FALSE, loads |-> FALSE,
                              texts |-> <<>>],
     session_id |-> <<>>, obj |-> None,
     success |-> FALSE, message |-> "", chunk_count |-> 0]

RejectionMut(file) == IF ~file.is_pdf THEN "Only PDF files are supported" ELSE ""

\* process_pdf_file, lines 55-66: the message of the rejection, "" when the
\* file passes
Rejection(file) ==
    IF ~file.is_pdf THEN "Only PDF files are supported"
    ELSE IF ~file.loads THEN "Failed to load PDF document"
    ELSE IF file.texts = <<>> THEN "Failed to create document chunks"
    ELSE ""

\* upload_pdf with one file, and process_pdf_file up to line 69: the three
\* rejections return (False, message, 0) and upload_pdf goes on to line 51
UploadPdf(u) ==
    /\ up[u].pc \in {"idle", "done"}
    /\ UNCHANGED process
    /\ requests < MaxRequests
    /\ requests' = requests + 1
    /\ \E file \in Files :
          up' = [up EXCEPT ![u] =
                   [UIdle EXCEPT
                      !.file = file,
                      !.session_id = current_session_id,
                      !.message = Rejection(file),
                      !.pc = IF Rejection(file) = ""
                             THEN "index_check" ELSE "update_workflow"]]
    /\ UNCHANGED <<tools, index, store, current_session_id, uuids, faults, qp>>

\* line 71: if self.vector_store is None; otherwise the receiver of
\* add_documents is read
IndexCheck(u) ==
    /\ up[u].pc = "index_check"
    /\ UNCHANGED process
    /\ up' = [up EXCEPT ![u] =
                IF vector_store = None
                THEN [@ EXCEPT !.pc = "create"]
                ELSE [@ EXCEPT !.pc = "extend", !.obj = vector_store]]
    /\ UNCHANGED <<tools, index, store, current_session_id, uuids, env, qp>>

\* line 72: self.vector_store = FAISS.from_documents(chunks, embeddings);
\* an exception is caught at line 85
IndexCreate(u) ==
    /\ up[u].pc = "create"
    /\ UNCHANGED process
    /\ \E ok \in BOOLEAN :
          /\ MayFail(<<ok>>)
          /\ faults' = faults - Failed(<<ok>>)
          /\ IF ok
             THEN /\ faiss' = Append(faiss, ChunksOf(up[u].file))
                  /\ vector_store' = Len(faiss) + 1
                  /\ up' = [up EXCEPT ![u] = [@ EXCEPT !.pc = "metadata"]]
             ELSE /\ UNCHANGED <<faiss, vector_store>>
                  /\ up' = [up EXCEPT ![u] = [@ EXCEPT !.message = "Error processing PDF",
                                                       !.pc = "update_workflow"]]
    /\ UNCHANGED <<tools, graph, store, current_session_id, uuids, requests, qp>>

AddDocumentsMut(indexed, chunks) == chunks

\* FAISS.add_documents: the chunks are added after those the index holds
add_documents(indexed, chunks) == indexed \o chunks

\* line 74: self.vector_store.add_documents(chunks)
IndexExtend(u) ==
    /\ up[u].pc = "extend"
    /\ UNCHANGED process
    /\ \E ok \in BOOLEAN :
          /\ MayFail(<<ok>>)
          /\ faults' = faults - Failed(<<ok>>)
          /\ IF ok
             THEN /\ faiss' = [faiss EXCEPT ![up[u].obj] =
                                    add_documents(@, ChunksOf(up[u].file))]
                  /\ up' = [up EXCEPT ![u] = [@ EXCEPT !.pc = "metadata"]]
             ELSE /\ UNCHANGED faiss
                  /\ up' = [up EXCEPT ![u] = [@ EXCEPT !.message = "Error processing PDF",
                                                       !.pc = "update_workflow"]]
    /\ UNCHANGED <<tools, vector_store, graph, store, current_session_id, uuids,
                   requests, qp>>

SaveDocumentMetadataMut(docs, session_id, filename, chunk_count, ok) ==
    Append(docs, [session_id |-> session_id, filename |-> filename,
                  chunk_count |-> chunk_count])

\* save_document_metadata: insert_one on documents, False when it fails
save_document_metadata(docs, session_id, filename, chunk_count, ok) ==
    IF ok
    THEN Append(docs, [session_id |-> session_id, filename |-> filename,
                       chunk_count |-> chunk_count])
    ELSE docs

\* lines 76-83 of process_pdf_file
SaveMetadata(u) ==
    /\ up[u].pc = "metadata"
    /\ UNCHANGED process
    /\ \E ok \in BOOLEAN :
          /\ MayFail(<<ok>>)
          /\ faults' = faults - Failed(<<ok>>)
          /\ documents' = save_document_metadata(documents, up[u].session_id,
                              up[u].file.filename, Len(up[u].file.texts), ok)
          /\ up' = [up EXCEPT ![u] =
                      [@ EXCEPT !.success = ok,
                                !.message = IF ok THEN "Processed"
                                            ELSE "Failed to save document metadata",
                                !.chunk_count = IF ok THEN Len(up[u].file.texts) ELSE 0,
                                !.pc = "update_workflow"]]
    /\ UNCHANGED <<tools, index, chat_history, sessions, timestamps, current_session_id, uuids,
                   requests, qp>>

\* line 51 of upload_pdf, after the file was processed
UpdateWorkflow(u) ==
    /\ up[u].pc = "update_workflow"
    /\ UNCHANGED process
    /\ graph' = update_workflow(vector_store, graph)
    /\ up' = [up EXCEPT ![u] = [@ EXCEPT !.pc = "done"]]
    /\ UNCHANGED <<tools, faiss, vector_store, store, current_session_id, uuids, env, qp>>

---------------------------------------------------------------------------
(* app.py: sessions *)

\* new_session: a fresh uuid4 becomes the current session
NewSession ==
    /\ requests < MaxRequests
    /\ UNCHANGED process
    /\ requests' = requests + 1
    /\ uuids' = uuids + 1
    /\ current_session_id' = Uuid(uuids + 1)
    /\ UNCHANGED <<tools, index, store, faults, qp, up>>

\* load_session(session_id) with the identifier of another session
LoadSession ==
    /\ requests < MaxRequests
    /\ UNCHANGED process
    /\ requests' = requests + 1
    /\ \E n \in 1..uuids :
          /\ Uuid(n) # current_session_id
          /\ current_session_id' = Uuid(n)
    /\ UNCHANGED <<tools, index, store, uuids, faults, qp, up>>

---------------------------------------------------------------------------
(* The program *)

InitProgram ==
    /\ faiss = <<>>
    /\ vector_store = None
    /\ graph = None
    /\ chat_history = <<>>
    /\ timestamps = <<>>
    /\ sessions = <<>>
    /\ documents = <<>>
    /\ current_session_id = Uuid(1)
    /\ uuids = 1
    /\ requests = 0
    /\ faults = MaxFaults
    /\ qp = [p \in QProcs |-> QIdle]
    /\ up = [u \in UProcs |-> UIdle]

\* main() has built the interface and is inside interface.launch()
Launched ==
    /\ client = MongoClient
    /\ main = [pc |-> "launch", chat_interface |-> TRUE, raised |-> NoException]
    /\ store_call = NoCall

Init ==
    /\ InitProgram
    /\ Launched
    /\ pdf_tool = PdfToolIdle
    /\ web_tool = WebToolIdle

Next ==
    \/ \E p \in QProcs : ChatResponse(p)
    \/ \E p \in QProcs : QueryRoute(p)
    \/ \E p \in QProcs : PdfSearchNode(p)
    \/ \E p \in QProcs : WebSearchNode(p)
    \/ \E p \in QProcs : SaveUser(p)
    \/ \E p \in QProcs : SaveAssistant(p)
    \/ \E u \in UProcs : UploadPdf(u)
    \/ \E u \in UProcs : IndexCheck(u)
    \/ \E u \in UProcs : IndexCreate(u)
    \/ \E u \in UProcs : IndexExtend(u)
    \/ \E u \in UProcs : SaveMetadata(u)
    \/ \E u \in UProcs : UpdateWorkflow(u)
    \/ NewSession
    \/ LoadSession

Spec == Init /\ [][Next]_vars

---------------------------------------------------------------------------
(* The two tools on their own *)

InitRetrieval ==
    /\ InitProgram
    /\ Launched
    /\ pdf_tool \in { [PdfToolIdle EXCEPT !.pc = "call", !.search = s] : s \in PdfSearches }
    /\ web_tool = WebToolIdle

PdfToolReturn ==
    /\ pdf_tool.pc = "call"
    /\ UNCHANGED process
    /\ pdf_tool' = [pdf_tool EXCEPT
            !.pc = "ret",
            !.relevant_content =
                IF pdf_tool.search.raised THEN <<>>
                ELSE relevant_content(pdf_tool.search.results),
            !.ret = pdf_retrieval_tool(FALSE, pdf_tool.search)]
    /\ UNCHANGED <<web_tool, index, store, current_session_id, uuids, env, qp, up>>

NextRetrieval == PdfToolReturn

SpecRetrieval == InitRetrieval /\ [][NextRetrieval]_vars

(* One call of tavily_search_tool *)

InitWeb ==
    /\ InitProgram
    /\ Launched
    /\ web_tool \in { [WebToolIdle EXCEPT !.pc = "call", !.search = s] : s \in WebSearches }
    /\ pdf_tool = PdfToolIdle

WebToolReturn ==
    /\ web_tool.pc = "call"
    /\ UNCHANGED process
    /\ web_tool' = [web_tool EXCEPT
            !.pc = "ret",
            !.content_parts =
                IF web_tool.search.raised \/ ~web_tool.search.is_list THEN <<>>
                ELSE content_parts(web_tool.search.results),
            !.ret = tavily_search_tool(web_tool.search)]
    /\ UNCHANGED <<pdf_tool, index, store, current_session_id, uuids, env, qp, up>>

NextWeb == WebToolReturn

SpecWeb == InitWeb /\ [][NextWeb]_vars

---------------------------------------------------------------------------
(* A process that has served requests before: a file was ingested in the   *)
(* first session, which may hold turns of earlier queries, and the current *)
(* session is that one or a newer one                                      *)

\* the i-th turn that earlier queries of session_id have written
EarlierTurn(session_id, i) ==
    [session_id |-> session_id,
     content |-> IF i % 2 = 1 THEN <<"q", ToString((i + 1) \div 2)>>
                 ELSE <<"r", ToString(i \div 2)>>,
     role |-> IF i % 2 = 1 THEN "user" ELSE "assistant",
     call |-> <<"earlier", (i + 1) \div 2>>]

EarlierTurns(session_id, queries) ==
    [i \in 1..(2 * queries) |-> EarlierTurn(session_id, i)]

IngestedFiles == { f \in Files : f.is_pdf /\ f.loads /\ f.texts # <<>> }

InitServed ==
    /\ pdf_tool = PdfToolIdle
    /\ web_tool = WebToolIdle
    /\ faiss \in { <<ChunksOf(f)>> : f \in IngestedFiles }
    /\ vector_store = 1
    /\ graph = 1
    /\ chat_history \in { EarlierTurns(Uuid(1), n) : n \in {0, 1, MaxEarlierQueries} }
    /\ timestamps = [i \in 1..Len(chat_history) |-> i]
    /\ sessions = IF chat_history = <<>> THEN <<>> ELSE <<[session_id |-> Uuid(1)]>>
    /\ documents = <<[session_id |-> Uuid(1), filename |-> faiss[1][1].source,
                      chunk_count |-> Len(faiss[1])]>>
    /\ current_session_id \in {Uuid(1), Uuid(2)}
    /\ uuids = 2
    /\ requests = MaxRequests - 1
    /\ faults = MaxFaults + 1
    /\ qp = [p \in QProcs |-> QIdle]
    /\ up = [u \in UProcs |-> UIdle]
    /\ Launched

NextServed ==
    \/ \E p \in QProcs : ChatResponse(p)
    \/ \E p \in QProcs : QueryRoute(p)
    \/ \E p \in QProcs : PdfSearchNode(p)
    \/ \E p \in QProcs : WebSearchNode(p)
    \/ \E p \in QProcs : SaveUser(p)
    \/ \E p \in QProcs : SaveAssistant(p)

SpecServed == InitServed /\ [][NextServed]_vars

\* a query runs on its own thread as one synchronous call chain: when every
\* external call returns or fails, its next step is taken
QueryStep(p) ==
    \/ QueryRoute(p)
    \/ PdfSearchNode(p)
    \/ WebSearchNode(p)
    \/ SaveUser(p)
    \/ SaveAssistant(p)

SpecServedFair == SpecServed /\ \A p \in QProcs : WF_vars(QueryStep(p))

(* A process whose index was built from a document whose text reads like    *)
(* the retriever's own outcomes                                             *)

\* chunk texts: one that starts with "Error:", one that is the text
\* NO_RELEVANT_CONTENT, and a blank one
OutcomeLikeTexts == { ErrorPrefix \o <<" see page 2">>, NO_RELEVANT_CONTENT, <<" ">> }

OutcomeLikeIndexes ==
    UNION { [1..n -> [page_content : OutcomeLikeTexts, source : {"report.pdf"}]] :
            n \in 1..MaxChunksUsed }

InitOutcomeLike ==
    /\ pdf_tool = PdfToolIdle
    /\ web_tool = WebToolIdle
    /\ faiss \in { <<chunks>> : chunks \in OutcomeLikeIndexes }
    /\ vector_store = 1
    /\ graph = 1
    /\ chat_history = <<>>
    /\ timestamps = <<>>
    /\ sessions = <<>>
    /\ documents = <<[session_id |-> Uuid(1), filename |-> "report.pdf",
                      chunk_count |-> Len(faiss[1])]>>
    /\ current_session_id = Uuid(1)
    /\ uuids = 1
    /\ requests = MaxRequests - 1
    /\ faults = MaxFaults
    /\ qp = [p \in QProcs |-> QIdle]
    /\ up = [u \in UProcs |-> UIdle]
    /\ Launched

SpecOutcomeLike == InitOutcomeLike /\ [][NextServed]_vars

(* A process whose index and workflow were built by an earlier upload of    *)
(* far.pdf: one more upload and the queries of one listener.  The index     *)
(* exists, so process_pdf_file never takes the branch of line 72            *)

InitWarm ==
    /\ pdf_tool = PdfToolIdle
    /\ web_tool = WebToolIdle
    /\ faiss = <<ChunksOf(CHOOSE f \in Files : f.filename = "far.pdf")>>
    /\ vector_store = 1
    /\ graph = 1
    /\ chat_history = <<>>
    /\ timestamps = <<>>
    /\ sessions = <<>>
    /\ documents = <<[session_id |-> Uuid(1), filename |-> "far.pdf",
                      chunk_count |-> Len(faiss[1])]>>
    /\ current_session_id = Uuid(1)
    /\ uuids = 1
    /\ requests = 0
    /\ faults = MaxFaults
    /\ qp = [p \in QProcs |-> QIdle]
    /\ up = [u \in UProcs |-> UIdle]
    /\ Launched

NextWarm ==
    \/ ChatResponse("submit")
    \/ QueryRoute("submit")
    \/ PdfSearchNode("submit")
    \/ WebSearchNode("submit")
    \/ SaveUser("submit")
    \/ SaveAssistant("submit")
    \/ \E u \in UProcs : UploadPdf(u)
    \/ \E u \in UProcs : IndexCheck(u)
    \/ \E u \in UProcs : IndexExtend(u)
    \/ \E u \in UProcs : SaveMetadata(u)
    \/ \E u \in UProcs : UpdateWorkflow(u)

SpecWarm == InitWarm /\ [][NextWarm]_vars

---------------------------------------------------------------------------
(* Two calls of upload_pdf at a time: process_pdf_file takes no lock, and   *)
(* the interface runs as many calls of a listener as its queue is set to    *)

IngestProcs == {"upload", "upload_too"}

InitIngest ==
    /\ pdf_tool = PdfToolIdle
    /\ web_tool = WebToolIdle
    /\ faiss = <<>>
    /\ vector_store = None
    /\ graph = None
    /\ chat_history = <<>>
    /\ timestamps = <<>>
    /\ sessions = <<>>
    /\ documents = <<>>
    /\ current_session_id = Uuid(1)
    /\ uuids = 1
    /\ requests = 0
    /\ faults = MaxFaults
    /\ qp = [p \in QProcs |-> QIdle]
    /\ up = [u \in IngestProcs |-> UIdle]
    /\ Launched

NextIngest ==
    \/ \E u \in IngestProcs : UploadPdf(u)
    \/ \E u \in IngestProcs : IndexCheck(u)
    \/ \E u \in IngestProcs : IndexCreate(u)
    \/ \E u \in IngestProcs : IndexExtend(u)
    \/ \E u \in IngestProcs : SaveMetadata(u)
    \/ \E u \in IngestProcs : UpdateWorkflow(u)

SpecIngest == InitIngest /\ [][NextIngest]_vars

---------------------------------------------------------------------------
(* app.py: main(), from the start of the process to its exit.  The handlers  *)
(* of the interface run while main() is inside interface.launch().           *)

MainStart == [pc |-> "start", chat_interface |-> FALSE, raised |-> NoException]

\* what MongoClient(...) and the ping of _initialize_connection can do
ConnectOutcomes == {"connected", "client_raises", "ping_raises"}

\* NetSolChatInterface() up to DatabaseManager(): DocumentProcessor builds
\* DocumentStorage, which builds the DatabaseManager and opens the connection.
\* The client is assigned before the ping, so a failed ping leaves it set.
InitializeConnection ==
    /\ main.pc = "start"
    /\ \E outcome \in ConnectOutcomes :
          /\ client' = IF outcome = "client_raises" THEN client ELSE MongoClient
          /\ main' = IF outcome = "connected"
                     THEN [main EXCEPT !.pc = "embeddings"]
                     ELSE [main EXCEPT !.pc = "except",
                             !.raised = IF outcome = "ping_raises"
                                        THEN "ConnectionFailure" ELSE "Exception"]
    /\ UNCHANGED <<tools, index, store, current_session_id, uuids, env, qp, up,
                   store_call>>

\* the rest of NetSolChatInterface(): HuggingFaceEmbeddings may raise; after
\* it ChatHistoryStorage() gets the same DatabaseManager, RAGPipeline is built
\* and main() binds chat_interface
NetSolChatInterfaceInit ==
    /\ main.pc = "embeddings"
    /\ \E ok \in BOOLEAN :
          main' = IF ok THEN [main EXCEPT !.pc = "create_interface", !.chat_interface = TRUE]
                  ELSE [main EXCEPT !.pc = "except", !.raised = "Exception"]
    /\ UNCHANGED <<tools, index, store, current_session_id, uuids, env, qp, up, client,
                   store_call>>

\* interface = chat_interface.create_interface()
CreateInterface ==
    /\ main.pc = "create_interface"
    /\ \E ok \in BOOLEAN :
          main' = IF ok THEN [main EXCEPT !.pc = "launch"]
                  ELSE [main EXCEPT !.pc = "except", !.raised = "Exception"]
    /\ UNCHANGED <<tools, index, store, current_session_id, uuids, env, qp, up, client,
                   store_call>>

\* interface.launch() returns, or raises
LaunchEnds ==
    /\ main.pc = "launch"
    /\ \E ok \in BOOLEAN :
          main' = IF ok THEN [main EXCEPT !.pc = "finally"]
                  ELSE [main EXCEPT !.pc = "except", !.raised = "Exception"]
    /\ UNCHANGED <<tools, index, store, current_session_id, uuids, env, qp, up, client,
                   store_call>>

\* except Exception: the error is logged and printed
MainExcept ==
    /\ main.pc = "except"
    /\ main' = [main EXCEPT !.pc = "finally"]
    /\ UNCHANGED <<tools, index, store, current_session_id, uuids, env, qp, up, client,
                   store_call>>

\* finally: chat_interface.pipeline.chat_storage.db_manager.close_connection();
\* reading chat_interface raises UnboundLocalError when the constructor raised
MainFinally ==
    /\ main.pc = "finally"
    /\ IF main.chat_interface
       THEN /\ client' = close_connection(client)
            /\ main' = [main EXCEPT !.pc = "exit"]
       ELSE /\ client' = client
            /\ main' = [main EXCEPT !.pc = "exit", !.raised = "UnboundLocalError"]
    /\ UNCHANGED <<tools, index, store, current_session_id, uuids, env, qp, up,
                   store_call>>

Serving == main.pc = "launch"

InitMain ==
    /\ InitProgram
    /\ pdf_tool = PdfToolIdle
    /\ web_tool = WebToolIdle
    /\ client = None
    /\ main = MainStart
    /\ store_call = NoCall

NextMain ==
    \/ InitializeConnection
    \/ NetSolChatInterfaceInit
    \/ CreateInterface
    \/ LaunchEnds
    \/ MainExcept
    \/ MainFinally
    \/ \E p \in QProcs : Serving /\ ChatResponse(p)
    \/ \E p \in QProcs : Serving /\ QueryRoute(p)
    \/ \E p \in QProcs : Serving /\ PdfSearchNode(p)
    \/ \E p \in QProcs : Serving /\ WebSearchNode(p)
    \/ \E p \in QProcs : Serving /\ SaveUser(p)
    \/ \E p \in QProcs : Serving /\ SaveAssistant(p)
    \/ \E u \in UProcs : Serving /\ UploadPdf(u)
    \/ \E u \in UProcs : Serving /\ IndexCheck(u)
    \/ \E u \in UProcs : Serving /\ IndexCreate(u)
    \/ \E u \in UProcs : Serving /\ IndexExtend(u)
    \/ \E u \in UProcs : Serving /\ SaveMetadata(u)
    \/ \E u \in UProcs : Serving /\ UpdateWorkflow(u)
    \/ Serving /\ NewSession
    \/ Serving /\ LoadSession

SpecMain == InitMain /\ [][NextMain]_vars

---------------------------------------------------------------------------
(* history.py: the store adapter on its own.  Callers write and read with    *)
(* any arguments; a writer's reading of the clock may equal or precede       *)
(* that of a turn already inserted (two writers at a time, or a clock        *)
(* stored in milliseconds)                                                   *)

StoreSessionIds == {<<>>, Uuid(1), Uuid(2)}

\* what datetime.utcnow() can read
ClockReadings == {1, 2}

\* the arguments of a save_message: all of them valid, or one of them not
StoreWrites(ch) ==
    LET message == <<"m", ToString(Len(ch) + 1)>>
    IN  { [session_id |-> s, message |-> message, role |-> r] :
            s \in {Uuid(1), Uuid(2)}, r \in Roles }
        \cup { [session_id |-> <<>>, message |-> message, role |-> "user"],
               [session_id |-> Uuid(1), message |-> <<>>, role |-> "user"],
               [session_id |-> Uuid(1), message |-> message, role |-> ""],
               [session_id |-> Uuid(1), message |-> message, role |-> "moderator"] }

\* save_message(session_id, message, role)
SaveMessageCall ==
    /\ store_call = NoCall
    /\ Len(chat_history) < MaxTurns
    /\ \E w \in StoreWrites(chat_history), now \in ClockReadings,
          get_ok, sess_ok, msg_ok \in BOOLEAN :
          LET r == save_message(sessions, chat_history, timestamps, w.session_id,
                                w.message, w.role, <<"store", Len(chat_history) + 1>>,
                                now, get_ok, sess_ok, msg_ok)
          IN  /\ sessions' = r.sessions
              /\ chat_history' = r.chat_history
              /\ timestamps' = r.timestamps
              /\ store_call' = [op |-> "save_message", session_id |-> w.session_id,
                                message |-> w.message, role |-> w.role, ret |-> r.ret]
    /\ UNCHANGED <<tools, index, documents, current_session_id, uuids, env, qp, up,
                   client, main>>

\* save_session(session_id)
SaveSessionCall ==
    /\ store_call = NoCall
    /\ \E session_id \in StoreSessionIds, ok \in BOOLEAN :
          /\ sessions' = save_session(sessions, session_id, ok)
          /\ store_call' = [op |-> "save_session", session_id |-> session_id,
                            ret |-> sessions' # sessions]
    /\ UNCHANGED <<tools, index, chat_history, timestamps, documents,
                   current_session_id, uuids, env, qp, up, client, main>>

\* load_history(session_id, limit)
LoadHistoryCall ==
    /\ store_call = NoCall
    /\ \E session_id \in StoreSessionIds, limit \in 1..MaxTurns, ok \in BOOLEAN :
       \E order \in SessionOrders(chat_history, timestamps, session_id) :
          store_call' = [op |-> "load_history", session_id |-> session_id,
                         limit |-> limit,
                         ret |-> load_history(chat_history, timestamps, session_id,
                                              limit, ok, order)]
    /\ UNCHANGED <<tools, index, store, current_session_id, uuids, env, qp, up,
                   client, main>>

\* the messages load_session hands to the chat window
gradio_history(history_tuples) ==
    LET kept == SelectSeq(history_tuples, LAMBDA t : t[1] \in {"user", "assistant"})
    IN  [i \in 1..Len(kept) |-> [role |-> kept[i][1], content |-> kept[i][2]]]

\* load_session(session_id) with the history it returns
LoadSessionCall ==
    /\ store_call = NoCall
    /\ \E session_id \in StoreSessionIds, ok \in BOOLEAN :
       \E order \in SessionOrders(chat_history, timestamps, session_id) :
          IF Strip(session_id) = <<>>
          THEN /\ store_call' = [op |-> "load_session", session_id |-> session_id,
                                 ret |-> <<>>]
               /\ UNCHANGED current_session_id
          ELSE /\ store_call' =
                     [op |-> "load_session", session_id |-> session_id,
                      ret |-> gradio_history(
                                load_history(chat_history, timestamps, session_id,
                                             DefaultLimit, ok, order))]
               /\ current_session_id' = session_id
    /\ UNCHANGED <<tools, index, store, uuids, env, qp, up, client, main>>

\* the caller has taken the result of its call
StoreCallReturns ==
    /\ store_call # NoCall
    /\ store_call' = NoCall
    /\ UNCHANGED <<tools, index, store, current_session_id, uuids, env, qp, up,
                   client, main>>

InitStore ==
    /\ InitProgram
    /\ pdf_tool = PdfToolIdle
    /\ web_tool = WebToolIdle
    /\ Launched

NextStore ==
    \/ SaveMessageCall
    \/ SaveSessionCall
    \/ LoadHistoryCall
    \/ LoadSessionCall
    \/ StoreCallReturns

SpecStore == InitStore /\ [][NextStore]_vars

---------------------------------------------------------------------------
(* Properties of pdf_retrieval_tool (SpecRetrieval) *)

PdfReturned == pdf_tool.pc = "ret" /\ ~pdf_tool.search.raised

\* positions of the returned neighbours with d < 1.5 and non-blank text
RetainedIdx ==
    { i \in 1..Len(pdf_tool.search.results) :
        /\ 2 * pdf_tool.search.results[i].score < 3 * ScoreDen
        /\ Strip(pdf_tool.search.results[i].page_content) # <<>> }

\* f lists, in increasing order, positions of the returned neighbours
IsIncreasing(f) == \A i, j \in DOMAIN f : i < j => f[i] < f[j]

Range(f) == { f[i] : i \in DOMAIN f }

\* C6: a returned chunk is retained iff its similarity 1/(1+d) is strictly
\* above 0.4, that is d < 1.5, and its trimmed text is non-empty, so a chunk
\* at d = 1.5 exactly is dropped; the outcome is grounded iff some chunk is
\* retained and NO_RELEVANT_CONTENT otherwise.
C6_RetainedIffAboveThreshold ==
    PdfReturned =>
        LET rs == pdf_tool.search.results
            rc == pdf_tool.relevant_content
        IN  /\ Len(rc) = Cardinality(RetainedIdx)
            /\ \E f \in [1..Len(rc) -> 1..Len(rs)] :
                  /\ IsIncreasing(f)
                  /\ Range(f) = RetainedIdx
                  /\ \A j \in 1..Len(rc) : rc[j] = Strip(rs[f[j]].page_content)
            /\ (\A i \in 1..Len(rs) : 2 * rs[i].score >= 3 * ScoreDen)
                  => pdf_tool.ret = NO_RELEVANT_CONTENT
            /\ (RetainedIdx # {}) <=> StartsWith(pdf_tool.ret, PdfContentPrefix)
            /\ (RetainedIdx = {}) <=> (pdf_tool.ret = NO_RELEVANT_CONTENT)

\* a chunk at exactly d = 1.5 with text was dropped while a nearer one was kept
C6_Witness ==
    /\ PdfReturned
    /\ \E i \in 1..Len(pdf_tool.search.results) :
          /\ 2 * pdf_tool.search.results[i].score = 3 * ScoreDen
          /\ Strip(pdf_tool.search.results[i].page_content) # <<>>
    /\ Len(pdf_tool.relevant_content) = 1
    /\ StartsWith(pdf_tool.ret, PdfContentPrefix)

\* C7: the grounded context holds min(2, n) chunk texts, n the number of
\* retained chunks: the retained chunks of highest similarity, nearest first,
\* joined by a blank line.
C7_TopTwoRetained ==
    (PdfReturned /\ RetainedIdx # {}) =>
        LET rs == pdf_tool.search.results
            m  == Min(2, Cardinality(RetainedIdx))
        IN  \E f \in [1..m -> 1..Len(rs)] :
               /\ IsIncreasing(f)
               /\ Range(f) \subseteq RetainedIdx
               /\ \A k \in RetainedIdx \ Range(f) :
                     \A j \in 1..m : rs[f[j]].score <= rs[k].score /\ f[j] < k
               /\ \A j \in 1..(m - 1) : rs[f[j]].score <= rs[f[j + 1]].score
               /\ pdf_tool.ret =
                     PdfContentPrefix
                       \o Join([j \in 1..m |-> Strip(rs[f[j]].page_content)], BlankLine)

\* three chunks were retained, with different texts and distances, and two are used
C7_Witness ==
    /\ PdfReturned
    /\ Cardinality(RetainedIdx) = 3
    /\ pdf_tool.search.results[2].score < pdf_tool.search.results[3].score
    /\ Strip(pdf_tool.search.results[1].page_content)
         # Strip(pdf_tool.search.results[3].page_content)
    /\ pdf_tool.ret =
         PdfContentPrefix \o Strip(pdf_tool.search.results[1].page_content)
           \o BlankLine \o Strip(pdf_tool.search.results[2].page_content)

---------------------------------------------------------------------------
(* Properties of tavily_search_tool (SpecWeb) *)

WebReturnedList ==
    web_tool.pc = "ret" /\ ~web_tool.search.raised /\ web_tool.search.is_list

\* positions of the raw results that have non-empty content, in order
UsableIdx ==
    SelectSeq([i \in 1..Len(web_tool.search.results) |-> i],
              LAMBDA i : Strip(web_tool.search.results[i].content) # <<>>)

\* C8: the selected results are the first min(3, m) raw results that have
\* non-empty content, m counted over all the raw results returned.
C8_FirstThreeUsable ==
    WebReturnedList =>
        [j \in 1..Len(web_tool.content_parts) |-> web_tool.content_parts[j].source]
            = Slice(UsableIdx, 3)

\* how often the symbol c occurs in the text s
Occurrences(s, c) == Cardinality({ i \in 1..Len(s) : s[i] = c })

\* C9: the output uses at most 3 snippets, each carrying at most 400
\* characters of its result's content, a prefix of it, and tagged with that
\* result's source URL.
C9_SnippetsBounded ==
    WebReturnedList =>
        LET rs    == web_tool.search.results
            parts == web_tool.content_parts
        IN  /\ Len(parts) <= 3
            /\ Occurrences(web_tool.ret, "Source ") = Len(parts)
            /\ \A j \in 1..Len(parts) :
                  LET r == rs[parts[j].source]
                  IN  /\ Len(parts[j].body) <= 400
                      /\ Len(parts[j].body) <= Len(r.content)
                      /\ parts[j].body = SubSeq(r.content, 1, Len(parts[j].body))
                      /\ (Len(r.content) <= 400 => parts[j].body = r.content)
                      /\ parts[j].url = (IF r.url = <<>> THEN NoURL ELSE r.url)
            /\ parts # <<>> =>
                  web_tool.ret = WebResultsPrefix \o Join(RenderParts(parts), BlankLine)
            /\ Occurrences(web_tool.ret, "x") + Occurrences(web_tool.ret, "y")
                 + Occurrences(web_tool.ret, "w") <= 3 * 400

\* three snippets are used and one of them was cut to 400 characters
C9_Witness ==
    /\ WebReturnedList
    /\ Len(web_tool.content_parts) = 3
    /\ \E j \in 1..3 :
          /\ Len(web_tool.search.results[web_tool.content_parts[j].source].content) > 400
          /\ Len(web_tool.content_parts[j].body) = 400
          /\ web_tool.content_parts[j].url = <<"u">>

---------------------------------------------------------------------------
(* Properties of RAGPipeline.query (Spec) *)

Returned(p) == qp[p].pc = "done"

\* query has reached END of the graph, or left by one of its early returns
PastGraph(p) == qp[p].pc \in {"save_user", "save_assistant", "done"}

\* the turns of the history written by the call that p runs
OwnTurns(p) == SelectSeq(chat_history, LAMBDA t : t.call = <<p, qp[p].call>>)

UserTurn(p) ==
    [session_id |-> qp[p].thread_id, content |-> qp[p].user_query,
     role |-> "user", call |-> <<p, qp[p].call>>]

AssistantTurn(p) ==
    [session_id |-> qp[p].thread_id, content |-> qp[p].ret,
     role |-> "assistant", call |-> <<p, qp[p].call>>]

Invoked(p, capability) == \E i \in 1..Len(qp[p].calls) : qp[p].calls[i] = capability

\* C1 as stated: every call of query that returns has added exactly two
\* turns to the history of thread_id, the user turn with the original query
\* and then the assistant turn with the returned answer.
C1_ExactlyTwoTurns ==
    \A p \in DOMAIN qp :
        Returned(p) => OwnTurns(p) = <<UserTurn(p), AssistantTurn(p)>>

\* C1 amended: a call of query that returns has added, in this order, the
\* user turn with the original query if its first save_message returned True
\* and the assistant turn with the returned answer if its second one did,
\* and nothing else; before its first save_message it has added nothing.
C1_TurnsOfSuccessfulWrites ==
    \A p \in DOMAIN qp :
        /\ Returned(p) =>
              /\ Len(qp[p].saved) = 2
              /\ OwnTurns(p) =
                    (IF qp[p].saved[1] THEN <<UserTurn(p)>> ELSE <<>>)
                      \o (IF qp[p].saved[2] THEN <<AssistantTurn(p)>> ELSE <<>>)
              /\ qp[p].ret # <<>>
        /\ qp[p].pc \in {"route", "pdf_search", "web_search", "save_user"} =>
              OwnTurns(p) = <<>>

\* a call that went through the web search returned with both turns written
C1_Witness ==
    \E p \in DOMAIN qp :
        /\ Returned(p)
        /\ Invoked(p, "web_search")
        /\ qp[p].saved = <<TRUE, TRUE>>
        /\ OwnTurns(p) = <<UserTurn(p), AssistantTurn(p)>>

\* C2 as stated: the web search is invoked only after the retriever's
\* outcome NotFound; after the outcome Error the query ends with the
\* "no documents uploaded" message and without a web search.
C2_WebSearchOnlyAfterNotFound ==
    \A p \in DOMAIN qp :
        /\ Invoked(p, "web_search") => qp[p].pdf_result = NO_RELEVANT_CONTENT
        /\ (PastGraph(p) /\ StartsWith(qp[p].pdf_result, ErrorPrefix)) =>
              /\ ~Invoked(p, "web_search")
              /\ qp[p].answer \in {ErrNoPdfNode, ErrNoPdfQuery}

\* C3 as stated: with no index ever created, a query returns the fixed
\* message, that message is the assistant turn of the history, and neither
\* retrieval nor generation nor web search was invoked.
C3_NoIndexMessagePersisted ==
    \A p \in DOMAIN qp :
        (Returned(p) /\ faiss = <<>>) =>
            /\ qp[p].ret = ErrNoPdfQuery
            /\ qp[p].calls = <<>>
            /\ OwnTurns(p) # <<>>
            /\ OwnTurns(p)[Len(OwnTurns(p))] = AssistantTurn(p)

\* C3 amended: with no index ever created, a query returns the fixed
\* message without invoking retrieval, generation or web search, and that
\* message is the assistant turn of the history exactly when the
\* save_message that writes it returned True.
C3_NoIndexMessage ==
    \A p \in DOMAIN qp :
        /\ (PastGraph(p) /\ faiss = <<>>) =>
              /\ qp[p].answer = ErrNoPdfQuery
              /\ qp[p].calls = <<>>
              /\ qp[p].path = <<>>
        /\ (Returned(p) /\ faiss = <<>>) =>
              /\ qp[p].ret = ErrNoPdfQuery
              /\ qp[p].saved[2] =>
                    /\ OwnTurns(p) # <<>>
                    /\ OwnTurns(p)[Len(OwnTurns(p))] = AssistantTurn(p)
              /\ ~qp[p].saved[2] =>
                    \A i \in 1..Len(OwnTurns(p)) : OwnTurns(p)[i].role # "assistant"

\* a query returned the fixed message with no index, and the message was written
C3_Witness ==
    \E p \in DOMAIN qp :
        /\ Returned(p)
        /\ faiss = <<>>
        /\ qp[p].ret = ErrNoPdfQuery
        /\ qp[p].saved[2]
        /\ OwnTurns(p)[Len(OwnTurns(p))].content = ErrNoPdfQuery

\* C4: after the retriever's outcome NotFound on an existing index, the web
\* search is invoked exactly once, synthesis runs in web mode, and the graph
\* then is at END: WEB_SEARCH is left in one step.
C4_NotFoundThenWebOnce ==
    \A p \in DOMAIN qp :
        qp[p].pdf_result = NO_RELEVANT_CONTENT =>
            /\ qp[p].g # None
            /\ qp[p].pc = "web_search" =>
                  /\ qp[p].calls = <<"retrieve">>
                  /\ qp[p].path = <<"START", "DOCUMENT_SEARCH">>
            /\ qp[p].pc # "web_search" =>
                  /\ PastGraph(p)
                  /\ qp[p].calls = <<"retrieve", "web_search", "generate_web">>
                  /\ qp[p].path = <<"START", "DOCUMENT_SEARCH", "WEB_SEARCH", "END">>
                  /\ qp[p].llm_prompt = WebPrompt(qp[p].user_query, qp[p].web_result)

\* a query whose retrieval found nothing relevant returned a web answer
C4_Witness ==
    \E p \in DOMAIN qp :
        /\ Returned(p)
        /\ qp[p].pdf_result = NO_RELEVANT_CONTENT
        /\ qp[p].calls = <<"retrieve", "web_search", "generate_web">>
        /\ StartsWith(qp[p].web_result, WebResultsPrefix)

\* C5: after a grounded result the orchestrator synthesizes in document
\* mode and is at END at once; the web search is not invoked in that query,
\* whether the generation call succeeds or raises.
C5_GroundedNeverWeb ==
    \A p \in DOMAIN qp :
        StartsWith(qp[p].pdf_result, PdfContentPrefix) =>
            /\ PastGraph(p)
            /\ qp[p].pdf_found_content
            /\ qp[p].calls = <<"retrieve", "generate_document">>
            /\ qp[p].path = <<"START", "DOCUMENT_SEARCH", "END">>
            /\ qp[p].web_result = <<>>
            /\ qp[p].llm_prompt = PdfPrompt(qp[p].user_query, qp[p].pdf_result)

\* a grounded query whose generation call raised returned the raw grounding text
C5_Witness ==
    \E p \in DOMAIN qp :
        /\ Returned(p)
        /\ StartsWith(qp[p].pdf_result, PdfContentPrefix)
        /\ qp[p].ret = BasedOnPdf \o qp[p].pdf_result
        /\ ~Invoked(p, "web_search")

\* C10 as stated: when the web search has no results, or none with usable
\* content, the answer the query returns is the no-results message verbatim.
C10_NoResultsVerbatim ==
    \A p \in DOMAIN qp :
        (Returned(p) /\ qp[p].web_result \in {NoWebResults, NoRelevantWeb}) =>
            qp[p].ret = qp[p].web_result

---------------------------------------------------------------------------
(* Properties of the conversational context (SpecServed) *)

\* the turns the session of p's query held before the query, as load_history
\* returns turns: (role, content)
PriorTurns(p) ==
    LET mine == SelectSeq(chat_history,
                    LAMBDA t : t.session_id = qp[p].thread_id /\ t.call[1] = "earlier")
    IN  [i \in 1..Len(mine) |-> <<mine[i].role, mine[i].content>>]

LastN(s, n) == SubSeq(s, Len(s) - Min(n, Len(s)) + 1, Len(s))

IsInfix(part, text) ==
    \E i \in 0..(Len(text) - Len(part)) : SubSeq(text, i + 1, i + Len(part)) = part

\* query has built its prompt prefix (line 201-213)
PrefixBuilt(p) == qp[p].prompt_prefix # <<>>

\* C11 as stated: for a query with a retrospective cue whose session has
\* persisted history, the context built is that of the most recent turns of
\* the session, the last 10 when there are more than 10; with no history
\* the prefix is the raw query.
C11_LastTenTurns ==
    \A p \in DOMAIN qp :
        (PrefixBuilt(p) /\ history_relevant(qp[p].user_query)) =>
            /\ (PriorTurns(p) # <<>> /\ qp[p].history # <<>>) =>
                  qp[p].prompt_prefix =
                      prompt_prefix(qp[p].user_query,
                                    history_context(LastN(PriorTurns(p), 10)))
            /\ PriorTurns(p) = <<>> =>
                  qp[p].prompt_prefix = <<"Current Query: ">> \o qp[p].user_query

\* C12 as stated: when the cue is present and the history context is not
\* empty, the text passed to the generation capability contains the
\* role-labeled prior turns.
C12_HistoryReachesGeneration ==
    \A p \in DOMAIN qp :
        (/\ history_relevant(qp[p].user_query)
         /\ history_context(qp[p].history) # <<>>
         /\ qp[p].llm_prompt # <<>>) =>
            IsInfix(history_context(qp[p].history), qp[p].llm_prompt)

---------------------------------------------------------------------------
(* Properties of the failure paths of query (SpecServed) *)

\* the labeled raw text a query answers with when its generation call raised
FallbackAnswer(p) ==
    IF Invoked(p, "generate_web") THEN BasedOnWeb \o qp[p].web_result
    ELSE BasedOnPdf \o qp[p].pdf_result

\* the assistant turns the call that p runs has written
OwnAssistantTurns(p) == SelectSeq(OwnTurns(p), LAMBDA t : t.role = "assistant")

\* C13 as stated: when the generation call raises, the answer is the label
\* "Based on the PDF: " or "Based on web search: " followed by the raw
\* text, and the query completes and persists that answer.
C13_FallbackPersisted ==
    \A p \in DOMAIN qp :
        (Returned(p) /\ qp[p].gen_raised) =>
            /\ qp[p].ret = FallbackAnswer(p)
            /\ OwnAssistantTurns(p) = <<AssistantTurn(p)>>

\* C13 amended: when the generation call raises, the node's final_answer
\* and the answer the query returns are the labeled raw text; the query
\* calls save_message with it, and it is the assistant turn exactly when
\* that call returned True.
C13_FallbackAnswer ==
    \A p \in DOMAIN qp :
        qp[p].gen_raised =>
            /\ PastGraph(p)
            /\ qp[p].final_answer = FallbackAnswer(p)
            /\ qp[p].answer = FallbackAnswer(p)
            /\ Returned(p) =>
                  /\ qp[p].ret = FallbackAnswer(p)
                  /\ OwnAssistantTurns(p) =
                        (IF qp[p].saved[2] THEN <<AssistantTurn(p)>> ELSE <<>>)

\* a web-mode query whose generation call raised returned the labeled web
\* text and wrote it
C13_Witness ==
    \E p \in DOMAIN qp :
        /\ Returned(p)
        /\ qp[p].gen_raised
        /\ StartsWith(qp[p].web_result, WebResultsPrefix)
        /\ qp[p].ret = BasedOnWeb \o qp[p].web_result
        /\ OwnAssistantTurns(p) = <<AssistantTurn(p)>>

\* the graph of p's query ran to END
AtEnd(p) == qp[p].path # <<>> /\ qp[p].path[Len(qp[p].path)] = "END"

BlankFinalAnswer(p) == AtEnd(p) /\ Strip(qp[p].final_answer) = <<>>

\* C14 as stated: when final_answer at END is empty or blank, the fixed
\* apology is persisted as the assistant turn and returned; the persisted
\* assistant content and the returned value are identical.
C14_ApologyPersistedAndReturned ==
    \A p \in DOMAIN qp :
        /\ (Returned(p) /\ BlankFinalAnswer(p)) =>
              /\ qp[p].ret = Apology
              /\ OwnAssistantTurns(p) = <<AssistantTurn(p)>>
        /\ Returned(p) =>
              \A i \in 1..Len(OwnAssistantTurns(p)) :
                  OwnAssistantTurns(p)[i].content = qp[p].ret

\* C14 amended: when final_answer at END is empty or blank, the answer
\* given to save_message and returned is the fixed apology; whenever an
\* assistant turn is written its content is the returned value, and it is
\* written exactly when that save_message returned True.
C14_ApologyReturned ==
    \A p \in DOMAIN qp :
        /\ (PastGraph(p) /\ BlankFinalAnswer(p)) => qp[p].answer = Apology
        /\ Returned(p) =>
              /\ qp[p].ret = qp[p].answer
              /\ BlankFinalAnswer(p) => qp[p].ret = Apology
              /\ OwnAssistantTurns(p) =
                    (IF qp[p].saved[2] THEN <<AssistantTurn(p)>> ELSE <<>>)

\* a generation that returned blank text was answered and persisted as the apology
C14_Witness ==
    \E p \in DOMAIN qp :
        /\ Returned(p)
        /\ qp[p].final_answer = <<" ">>
        /\ ~qp[p].gen_raised
        /\ qp[p].ret = Apology
        /\ OwnAssistantTurns(p) = <<AssistantTurn(p)>>

InFlight(p) ==
    qp[p].pc \in {"route", "pdf_search", "web_search", "save_user", "save_assistant"}

\* C15: query never raises and returns a non-empty text whatever fails: a
\* call is at one of its steps or has returned, the graph it runs reads an
\* index that exists, it has an answer with text once it is past the
\* graph, and it returns that answer unchanged whether its two store
\* writes succeed or fail.
C15_AlwaysAnswers ==
    \A p \in DOMAIN qp :
        /\ qp[p].pc \in {"idle", "dropped", "done"} \/ InFlight(p)
        /\ qp[p].pc \in {"pdf_search", "web_search"} => qp[p].g \in 1..Len(faiss)
        /\ PastGraph(p) => Strip(qp[p].answer) # <<>>
        /\ Returned(p) =>
              /\ qp[p].ret = qp[p].answer
              /\ Strip(qp[p].ret) # <<>>
              /\ Len(qp[p].saved) = 2

\* a query whose two store writes both failed returned its answer
C15_Witness ==
    \E p \in DOMAIN qp :
        /\ Returned(p)
        /\ qp[p].saved = <<FALSE, FALSE>>
        /\ OwnTurns(p) = <<>>
        /\ Strip(qp[p].ret) # <<>>
        /\ faults = 0

---------------------------------------------------------------------------
(* Properties of ingestion (Spec) *)

\* the file is no .pdf, or the loader yields no documents, or the splitter
\* yields no chunks
Unusable(file) == ~file.is_pdf \/ ~file.loads \/ file.texts = <<>>

RejectionOf(file) ==
    IF ~file.is_pdf THEN "Only PDF files are supported"
    ELSE IF ~file.loads THEN "Failed to load PDF document"
    ELSE "Failed to create document chunks"

\* process_pdf_file is entered by the call that u runs
Enters(u) == up[u].pc \in {"idle", "done"} /\ up'[u].pc \notin {"idle", "done"}

\* C16: an ingestion of a file that is no .pdf, yields no documents or
\* yields no chunks returns (False, message, 0) at once and leaves the
\* FAISS objects, vector_store and the documents collection as they were.
C16_RejectedIngestionChangesNothing ==
    [][\A u \in DOMAIN up :
          (Enters(u) /\ Unusable(up'[u].file)) =>
              /\ up'[u].pc = "update_workflow"
              /\ up'[u].success = FALSE
              /\ up'[u].chunk_count = 0
              /\ up'[u].message = RejectionOf(up'[u].file)
              /\ faiss' = faiss
              /\ vector_store' = vector_store
              /\ documents' = documents]_vars

\* the splitter yielded no chunks while there was no index: there still is none
C16_Witness ==
    \E u \in DOMAIN up :
        /\ up[u].pc = "update_workflow"
        /\ up[u].message = "Failed to create document chunks"
        /\ up[u].chunk_count = 0
        /\ vector_store = None
        /\ faiss = <<>>
        /\ documents = <<>>

MetadataFailed(u) == up[u].message = "Failed to save document metadata"

\* C17: when the index update of an ingestion succeeded and the write of
\* the document metadata fails, process_pdf_file returns failure with chunk
\* count 0, the step writes no Document record, and the chunks stay in the
\* index vector_store refers to; the graph built afterwards searches it.
C17_MetadataFailureKeepsChunks ==
    /\ [][\A u \in DOMAIN up :
             (up[u].pc = "metadata" /\ up'[u].pc = "update_workflow"
                /\ ~up'[u].success) =>
                 /\ MetadataFailed(u)'
                 /\ up'[u].chunk_count = 0
                 /\ documents' = documents
                 /\ faiss' = faiss
                 /\ vector_store' = vector_store
                 /\ vector_store # None
                 /\ IsInfix(ChunksOf(up[u].file), faiss[vector_store])]_vars
    /\ [](\A u \in DOMAIN up :
             MetadataFailed(u) =>
                 /\ ~up[u].success
                 /\ up[u].chunk_count = 0
                 /\ vector_store # None
                 /\ IsInfix(ChunksOf(up[u].file), faiss[vector_store])
                 /\ up[u].pc = "done" => graph = vector_store)

\* after the failed metadata write there is no Document record at all, and
\* a query was grounded on the chunks of the file
C17_Witness ==
    \E u \in DOMAIN up, p \in DOMAIN qp :
        /\ MetadataFailed(u)
        /\ up[u].pc = "done"
        /\ documents = <<>>
        /\ Returned(p)
        /\ StartsWith(qp[p].pdf_result, PdfContentPrefix)
        /\ faiss[qp[p].g] = ChunksOf(up[u].file)

---------------------------------------------------------------------------
(* Properties of concurrent ingestion (SpecIngest) *)

Succeeded(u) == up[u].pc = "done" /\ up[u].success

\* the index vector_store refers to holds the chunks of the file of u
Indexed(u) == vector_store # None /\ IsInfix(ChunksOf(up[u].file), faiss[vector_store])

\* C18 as stated: when two process_pdf_file calls that ran at the same
\* time have both reported success, the index contains the chunks of both
\* files.
C18_BothFilesIndexed ==
    \A u1, u2 \in DOMAIN up :
        (u1 # u2 /\ Succeeded(u1) /\ Succeeded(u2)) => (Indexed(u1) /\ Indexed(u2))

---------------------------------------------------------------------------
(* Properties of sessions sharing the index (SpecServed) *)

\* the session of p's query has ingested nothing, another session has
IngestedOnlyElsewhere(p) ==
    /\ documents # <<>>
    /\ \A i \in 1..Len(documents) : documents[i].session_id # qp[p].thread_id

\* C19: a query of a session that has ingested nothing, issued after another
\* session ingested a document, is not answered with the "no documents
\* uploaded" message: it runs retrieval over the one index the process has,
\* which holds the other session's chunks, and is grounded on them when
\* they are near enough.
C19_IndexSharedAcrossSessions ==
    \A p \in DOMAIN qp :
        (IngestedOnlyElsewhere(p) /\ qp[p].pc \notin {"idle", "dropped", "route"}) =>
            /\ qp[p].answer \notin {ErrNoPdfQuery, ErrNoPdfNode, ErrWorkflow}
            /\ qp[p].path # <<>> =>
                  /\ qp[p].g = vector_store
                  /\ \A i \in 1..Len(faiss[qp[p].g]) :
                        faiss[qp[p].g][i].source = documents[1].filename
            /\ (qp[p].pc # "pdf_search" /\ qp[p].path # <<>>) =>
                  /\ Invoked(p, "retrieve")
                  /\ (/\ ~StartsWith(qp[p].pdf_result, ErrorPrefix)
                      /\ qp[p].user_query = PlainQuery
                      /\ documents[1].filename = "near.pdf") =>
                         qp[p].pdf_result = <<"PDF Content: ", "a", "\n\n", "b">>

\* a query of the second session was grounded on the chunks the first ingested
C19_Witness ==
    \E p \in DOMAIN qp :
        /\ Returned(p)
        /\ qp[p].thread_id = Uuid(2)
        /\ documents = <<[session_id |-> Uuid(1), filename |-> "near.pdf",
                          chunk_count |-> 2]>>
        /\ qp[p].pdf_result = <<"PDF Content: ", "a", "\n\n", "b">>
        /\ qp[p].pdf_found_content

---------------------------------------------------------------------------
(* Properties of concurrent queries of one session (Spec) *)

\* the turns the calls that p1 and p2 run have written, in the order of the
\* collection
TurnsOfBoth(p1, p2) ==
    SelectSeq(chat_history,
              LAMBDA t : t.call \in {<<p1, qp[p1].call>>, <<p2, qp[p2].call>>})

\* both calls have written their user turn and neither its assistant turn
BothAwaitAnswer(p1, p2) ==
    /\ p1 # p2
    /\ qp[p1].thread_id = qp[p2].thread_id
    /\ qp[p1].pc = "save_assistant" /\ qp[p1].saved = <<TRUE>>
    /\ qp[p2].pc = "save_assistant" /\ qp[p2].saved = <<TRUE>>

\* C20: queries of one session that run at the same time are not
\* serialized.  Every turn is appended at the end of the collection as it is
\* when save_message runs, whoever wrote the turn before it; and when two
\* calls of one session have both written their user turn and not yet their
\* assistant turn, the history holds both user turns and neither answer.
C20_TurnsInterleave ==
    /\ [][\A p \in DOMAIN qp :
             /\ (qp[p].pc = "save_user" /\ qp'[p].pc = "save_assistant"
                   /\ qp'[p].saved = <<TRUE>>) =>
                    chat_history' = Append(chat_history, UserTurn(p))
             /\ (qp[p].pc = "save_assistant" /\ qp'[p].pc = "done"
                   /\ qp'[p].saved[2]) =>
                    chat_history' = Append(chat_history, AssistantTurn(p)')]_vars
    /\ [](\A p1, p2 \in DOMAIN qp :
             BothAwaitAnswer(p1, p2) =>
                 TurnsOfBoth(p1, p2) \in {<<UserTurn(p1), UserTurn(p2)>>,
                                          <<UserTurn(p2), UserTurn(p1)>>})

\* the history of the session reads user1, user2, assistant1, assistant2
C20_Witness ==
    \E p1, p2 \in DOMAIN qp :
        /\ p1 # p2
        /\ Returned(p1) /\ Returned(p2)
        /\ qp[p1].thread_id = qp[p2].thread_id
        /\ SelectSeq(chat_history, LAMBDA t : t.session_id = qp[p1].thread_id)
             = <<UserTurn(p1), UserTurn(p2), AssistantTurn(p1), AssistantTurn(p2)>>


---------------------------------------------------------------------------
(* Properties of main() (SpecMain) *)

Exited == main.pc = "exit"

\* C21 as stated: on every exit path of main(), a failure during startup
\* after the store connection was opened included, the connection is
\* released: when the process exits the shared client is absent.
C21_ConnectionReleasedOnExit ==
    Exited => client = None

---------------------------------------------------------------------------
(* Properties of the persistent store (Spec) *)

\* the records the sessions collection holds for session_id
SessionRecords(session_id) ==
    { j \in 1..Len(sessions) : sessions[j].session_id = session_id }

\* C22 as stated: after any sequence and interleaving of save_message and
\* save_session calls, the session identifier of every turn of chat_history
\* has exactly one record in the sessions collection.
C22_EveryTurnHasOneSession ==
    \A i \in 1..Len(chat_history) :
        Cardinality(SessionRecords(chat_history[i].session_id)) = 1

---------------------------------------------------------------------------
(* Properties of the store adapter on its own (SpecStore) *)

\* the roles a ChatTurn may have
TurnRoles == {"user", "assistant", "system"}

\* the arguments save_message has to reject
Rejectable(c) ==
    c.session_id = <<>> \/ c.message = <<>> \/ c.role = "" \/ c.role \notin TurnRoles

\* s is t with one element appended
Appended(s, t) == Len(s) = Len(t) + 1 /\ SubSeq(s, 1, Len(t)) = t

\* C23: every turn of chat_history has a role in {user, assistant, system}
\* and non-empty content; a step of the adapter leaves the turns it finds as
\* they are and at most appends one; and a save_message with another role or
\* with an empty session id, message or role returns False and writes
\* nothing.
C23_TurnsValidAndAppendOnly ==
    /\ [](\A i \in 1..Len(chat_history) :
             /\ chat_history[i].role \in TurnRoles
             /\ chat_history[i].content # <<>>)
    /\ [][/\ \/ chat_history' = chat_history /\ timestamps' = timestamps
             \/ Appended(chat_history', chat_history) /\ Appended(timestamps', timestamps)
          /\ (store_call'.op = "save_message" /\ Rejectable(store_call')) =>
                /\ store_call'.ret = FALSE
                /\ UNCHANGED <<chat_history, timestamps, sessions>>]_vars

\* a save_message with a role outside the three was refused while the
\* collection holds a turn
C23_Witness ==
    /\ store_call.op = "save_message"
    /\ store_call.role = "moderator"
    /\ store_call.ret = FALSE
    /\ chat_history # <<>>

\* the place in chat_history of the turn with this content
TurnIndex(content) ==
    CHOOSE j \in 1..Len(chat_history) : chat_history[j].content = content

\* the user and assistant turns of a session, in the order they were inserted
PersistedReplay(session_id) ==
    LET mine == SelectSeq(chat_history,
                    LAMBDA t : t.session_id = session_id
                               /\ t.role \in {"user", "assistant"})
    IN  [i \in 1..Len(mine) |-> [role |-> mine[i].role, content |-> mine[i].content]]

\* what load_history has to return of its session: its own turns only, at
\* most limit, timestamps not decreasing
LoadedOfSession(c) ==
    /\ Len(c.ret) <= c.limit
    /\ \A i \in 1..Len(c.ret) :
          \E j \in 1..Len(chat_history) :
             /\ chat_history[j].session_id = c.session_id
             /\ c.ret[i] = <<chat_history[j].role, chat_history[j].content, timestamps[j]>>
    /\ \A i \in 1..(Len(c.ret) - 1) : c.ret[i][3] <= c.ret[i + 1][3]

\* C24 as stated: load_history returns only turns of its session, at most
\* limit of them, in non-decreasing timestamp order, and the history that
\* load_session replays is the session's user and assistant turns in the
\* order they were persisted.
C24_ReplayInPersistedOrder ==
    /\ store_call.op = "load_history" => LoadedOfSession(store_call)
    /\ (store_call.op = "load_session" /\ store_call.ret # <<>>) =>
          store_call.ret = PersistedReplay(store_call.session_id)

\* C24 amended: load_history returns only turns of its session, at most
\* limit of them, those with the smallest timestamps, in non-decreasing
\* timestamp order; the history that load_session replays holds each user
\* and assistant turn of the session once, in non-decreasing timestamp
\* order, which is the order they were persisted when the timestamps of the
\* session's turns increase in that order.
C24_ReplayInTimestampOrder ==
    /\ store_call.op = "load_history" =>
          /\ LoadedOfSession(store_call)
          /\ \A i \in 1..Len(store_call.ret) :
                \A j \in 1..Len(chat_history) :
                   (/\ chat_history[j].session_id = store_call.session_id
                    /\ \A k \in 1..Len(store_call.ret) :
                          store_call.ret[k][2] # chat_history[j].content) =>
                      store_call.ret[i][3] <= timestamps[j]
    /\ (store_call.op = "load_session" /\ store_call.ret # <<>>) =>
          LET ret == store_call.ret
              persisted == PersistedReplay(store_call.session_id)
          IN  /\ Len(ret) = Len(persisted)
              /\ \A i \in 1..Len(persisted) : \E k \in 1..Len(ret) : ret[k] = persisted[i]
              /\ \A i \in 1..(Len(ret) - 1) :
                    timestamps[TurnIndex(ret[i].content)]
                        <= timestamps[TurnIndex(ret[i + 1].content)]
              /\ (\A i \in 1..(Len(persisted) - 1) :
                     timestamps[TurnIndex(persisted[i].content)]
                         < timestamps[TurnIndex(persisted[i + 1].content)]) =>
                    ret = persisted

\* load_session replayed two turns of a session whose later turn carries
\* the earlier timestamp
C24_Witness ==
    /\ store_call.op = "load_session"
    /\ Len(store_call.ret) = 2
    /\ store_call.ret # PersistedReplay(store_call.session_id)
    /\ timestamps[TurnIndex(store_call.ret[1].content)]
          < timestamps[TurnIndex(store_call.ret[2].content)]

---------------------------------------------------------------------------
(* Properties of the workflow: its path and its termination (SpecServedFair) *)

\* the two paths of the compiled workflow
WorkflowPaths ==
    { <<"START", "DOCUMENT_SEARCH", "END">>,
      <<"START", "DOCUMENT_SEARCH", "WEB_SEARCH", "END">> }

IsPrefix(s, t) == Len(s) <= Len(t) /\ SubSeq(t, 1, Len(s)) = s

\* query is past the check of lines 182-187 with an index
PastNoIndexCheck(p) ==
    qp[p].pc \in {"pdf_search", "web_search", "save_user", "save_assistant", "done"}

\* C25 as stated: every query that gets past the no-index check follows
\* START, DOCUMENT_SEARCH, then END or WEB_SEARCH and END, and once the
\* workflow is left its path is one of the two complete paths; the query
\* eventually returns.
C25_EveryQueryReachesEnd ==
    /\ [](\A p \in DOMAIN qp :
            PastNoIndexCheck(p) =>
               /\ \E w \in WorkflowPaths : IsPrefix(qp[p].path, w)
               /\ PastGraph(p) => qp[p].path \in WorkflowPaths)
    /\ \A p \in QProcs : (qp[p].pc = "route") ~> Returned(p)

\* C25 amended: a query past the no-index check whose workflow invocation
\* does not raise follows START, DOCUMENT_SEARCH, then END or WEB_SEARCH and
\* END, each state entered at most once and DOCUMENT_SEARCH exactly once,
\* with one retrieval and at most one web search; one whose invocation
\* raises does not reach END and answers with the error message of the
\* except branch.  Either way the query eventually returns.
C25_PathOrErrorThenReturn ==
    /\ [](\A p \in DOMAIN qp :
            PastNoIndexCheck(p) =>
               /\ \E w \in WorkflowPaths : IsPrefix(qp[p].path, w)
               /\ \A i, j \in 1..Len(qp[p].path) :
                     qp[p].path[i] = qp[p].path[j] => i = j
               /\ PastGraph(p) =>
                     \/ /\ qp[p].path \in WorkflowPaths
                        /\ Occurrences(qp[p].calls, "retrieve") = 1
                        /\ Occurrences(qp[p].calls, "web_search") <= 1
                     \/ /\ qp[p].path = <<>>
                        /\ qp[p].calls = <<>>
                        /\ qp[p].answer = Sorry(Exc))
    /\ \A p \in QProcs : (qp[p].pc = "route") ~> Returned(p)

\* a query went through both nodes of the workflow, reached END and returned
C25_Witness ==
    \E p \in DOMAIN qp :
        /\ Returned(p)
        /\ qp[p].path = <<"START", "DOCUMENT_SEARCH", "WEB_SEARCH", "END">>

---------------------------------------------------------------------------
(* Properties of the index across the handlers (Spec) *)

\* the chunks a search of DocumentProcessor.vector_store ranges over
IndexedChunks(vs, fs) == IF vs = None THEN <<>> ELSE fs[vs]

\* C26: a step of a query, of new_session or of load_session leaves the
\* indexed chunks, the vector store and the documents collection as they
\* are; whatever changes the indexed chunks or the documents is a step of
\* an ingestion; and with ingestions issued one after the other the vector
\* store, once created, stays the same object and its chunks are only
\* added to.
C26_OnlyIngestionGrowsIndex ==
    [][/\ (qp' # qp \/ current_session_id' # current_session_id) =>
             /\ IndexedChunks(vector_store', faiss') = IndexedChunks(vector_store, faiss)
             /\ vector_store' = vector_store
             /\ documents' = documents
       /\ (\/ IndexedChunks(vector_store', faiss') # IndexedChunks(vector_store, faiss)
           \/ documents' # documents) =>
             \E u \in DOMAIN up : up'[u] # up[u]
       /\ vector_store # None =>
             /\ vector_store' = vector_store
             /\ IsPrefix(IndexedChunks(vector_store, faiss),
                         IndexedChunks(vector_store', faiss'))]_vars

\* a query has searched and returned in a process whose index holds the
\* chunks of an ingested file
C26_Witness ==
    /\ vector_store # None
    /\ IndexedChunks(vector_store, faiss) # <<>>
    /\ documents # <<>>
    /\ \E p \in DOMAIN qp : Returned(p) /\ Invoked(p, "retrieve")

---------------------------------------------------------------------------
(* Properties of the compiled workflow and the index (SpecWarm) *)

\* what pdf_retrieval_tool returns for a search over chunks
RetrievalOver(chunks, user_query) ==
    pdf_retrieval_tool(FALSE, [raised |-> FALSE, exc |-> <<>>,
                               results |-> similarity_search_with_score(
                                               chunks, user_query, TopK)])

\* C27: whenever RAGPipeline.graph exists, the index it searches is the
\* object DocumentProcessor.vector_store; a workflow that is running
\* searches that object too, so the retrieval of a query ranges over every
\* chunk the index holds at that moment, whether or not update_workflow has
\* run since the chunk was added.
C27_GraphSearchesTheVectorStore ==
    /\ [](/\ graph # None => graph = vector_store
          /\ \A p \in DOMAIN qp :
                qp[p].pc \in {"pdf_search", "web_search"} => qp[p].g = vector_store)
    /\ [][\A p \in DOMAIN qp :
            (qp[p].pc = "pdf_search" /\ qp'[p].pc # "pdf_search") =>
               qp'[p].pdf_result \in
                  { RetrievalOver(IndexedChunks(vector_store, faiss), qp[p].user_query),
                    ErrRetrievalFailed(Exc) }]_vars

\* a query was answered from a chunk of near.pdf, added to the index of
\* far.pdf by an upload that has not reached its update_workflow
C27_Witness ==
    /\ up["upload"].pc \in {"metadata", "update_workflow"}
    /\ up["upload"].file.filename = "near.pdf"
    /\ Len(faiss[vector_store]) > 1
    /\ Returned("submit")
    /\ StartsWith(qp["submit"].pdf_result, PdfContentPrefix \o <<"a">>)

---------------------------------------------------------------------------
(* Properties of the orchestrator's reading of the retriever's text         *)
(* (SpecOutcomeLike)                                                        *)

\* pdf_search_node has run the retriever for the query of p
Retrieved(p) == Invoked(p, "retrieve")

\* the chunks the retriever retains for the query of p
RetainedFor(p) ==
    relevant_content(similarity_search_with_score(faiss[qp[p].g], qp[p].user_query, TopK))

\* C28: whatever the chunks say, a search that retains a chunk gives a
\* result that starts with "PDF Content: " and pdf_found_content = True; a
\* search that retains none gives NO_RELEVANT_CONTENT, a failed search gives
\* an "Error:" text, and both leave pdf_found_content = False.
C28_OutcomesNotConfused ==
    \A p \in DOMAIN qp :
        Retrieved(p) =>
            /\ qp[p].pdf_found_content <=> StartsWith(qp[p].pdf_result, PdfContentPrefix)
            /\ (\/ qp[p].pdf_result = NO_RELEVANT_CONTENT
                \/ StartsWith(qp[p].pdf_result, ErrorPrefix)) => ~qp[p].pdf_found_content
            /\ \/ /\ qp[p].pdf_result = ErrRetrievalFailed(Exc)
                  /\ ~qp[p].pdf_found_content
               \/ /\ RetainedFor(p) # <<>>
                  /\ qp[p].pdf_result = GroundedText(RetainedFor(p))
                  /\ qp[p].pdf_found_content
               \/ /\ RetainedFor(p) = <<>>
                  /\ qp[p].pdf_result = NO_RELEVANT_CONTENT
                  /\ ~qp[p].pdf_found_content

\* a query was grounded on a retained chunk whose text starts with "Error:"
C28_Witness ==
    \E p \in DOMAIN qp :
        /\ Returned(p)
        /\ qp[p].pdf_found_content
        /\ StartsWith(qp[p].pdf_result, PdfContentPrefix \o ErrorPrefix)
        /\ ~Invoked(p, "web_search")
=============================================================================
